---------------------------- MODULE Spec2Model ----------------------------
(***************************************************************************)
(* Model of quill-resizable-table (src/src/ResizableTable.ts): one         *)
(* ResizableTable instance attached to an editor that holds one table.     *)
(*                                                                         *)
(* Indices are 0-based as in the source; a sequence s of the model holds   *)
(* the element of index i at s[i + 1].  Lengths are held in units of 1/U of *)
(* a CSS pixel (Px converts), so that offsetWidth / colSpan is exact for   *)
(* the colSpans of the tables below.  An inline style length of 0 stands   *)
(* for "not set": every read of a style length in the source treats the    *)
(* empty string and 0 alike (w ? parseFloat(w) : 0,                        *)
(* parseInt(w, 10) || minColumnWidth).                                     *)
(***************************************************************************)
EXTENDS Integers, Sequences, FiniteSets, TLC

VARIABLES
    rows,             \* table.rows: sequence of [cells, height]; height is tr.style.height
    hasColgroup,      \* table.querySelector('colgroup') is not null
    cols,             \* style.width of the colgroup's children, in order
    tableWidth,       \* table.style.width
    tableLayoutFixed, \* table.style.tableLayout = 'fixed'
    drag,             \* this.drag (NoDrag stands for null)
    overlay,          \* this.overlay is not null (the full-viewport div is in the body)
    docListeners,     \* document-level listeners of the drag: subset of {"mousemove","mouseup"}
    rootListeners,    \* the editor root carries the instance's listeners (attach / destroy)
    pendingRecords,   \* types of the records the host's MutationObserver holds, not yet taken
    last,             \* the handler or method that ran last, its arguments, and whether it threw
    nSteps,           \* number of API calls, pointer-downs and menu openings so far
    contextMenu,      \* this.contextMenu (NoMenu stands for null): the items of the open menu
    menuElements,     \* number of context menu elements in the body
    contextCell,      \* this.contextCell (NoCell stands for null)
    dismissListeners, \* document-level listeners of the menu: subset of {"mousedown","keydown"}
    dismissTimers,    \* pending setTimeout(..., 0) callbacks of showContextMenu
    edgeButtons,      \* addColBtn, addRowBtn and deleteTableBtn are in the body
    hoveredTable,     \* this.hoveredTable is not null
    hideEdgeBtnTimer, \* this.hideEdgeBtnTimer is pending
    hideTimers,       \* callbacks of scheduleHideEdgeButtons that setTimeout holds
    scrollListener,   \* the document carries onScrollBound
    tablePresent,     \* the table is in the editor (deleteTable removes it)
    host,             \* quill.scroll.observer: "working", "absent" or "throwing"
    resizeCells       \* cells carrying a resize class: <<row, cell index, edge>>

\* State of the context menu, the hover buttons and the host
uiVars == <<contextMenu, menuElements, contextCell, dismissListeners, dismissTimers, edgeButtons,
            hoveredTable, hideEdgeBtnTimer, hideTimers, scrollListener, tablePresent, host, resizeCells>>

vars == <<rows, hasColgroup, cols, tableWidth, tableLayoutFixed, drag, overlay,
          docListeners, rootListeners, pendingRecords, last, nSteps,
          contextMenu, menuElements, contextCell, dismissListeners, dismissTimers, edgeButtons,
          hoveredTable, hideEdgeBtnTimer, hideTimers, scrollListener, tablePresent, host, resizeCells>>

---------------------------------------------------------------------------
(* Bounds of the model *)

\* API calls plus pointer-downs in one run
MaxSteps == 2

---------------------------------------------------------------------------
(* Options: DEFAULTS of the source *)

handleSize == 5
minColumnWidth == 30
minRowHeight == 20
minTableWidth == 50
minTableHeight == 30

---------------------------------------------------------------------------
(* Layout supplied by the browser.  A column without an inline width is    *)
(* NatW wide, a row without an inline height is NatH high.                 *)

NatW == 60
NatH == 30

\* Pointer-down positions: distance of the pointer from the right / bottom
\* edge of the cell under it (2: inside the grab zone, 10: outside)
EdgeOffsets == {2, 10}

\* Pointer-move positions of a drag, relative to the position of the
\* pointer-down: <<dx, dy>>
Deltas == {<<-50, -20>>, <<0, 0>>, <<30, 20>>, <<30, -20>>}

\* Value of a number that is NaN (undefined + dx)
NaN == -1

\* Length units per CSS pixel: the largest colSpan of the tables below, by
\* which getColumnWidths divides a whole number of pixels
U == 2

Px(n) == U * n

\* A length rounded to whole pixels, as offsetWidth and offsetHeight are
RoundPx(u) == U * ((2 * u + U) \div (2 * U))

\* parseInt(w, 10) of a style length: its whole pixels
ParseInt(u) == U * (u \div U)

---------------------------------------------------------------------------
(* Sequences *)

Max(a, b) == IF a >= b THEN a ELSE b
Min(a, b) == IF a <= b THEN a ELSE b

RECURSIVE SumSeq(_)
SumSeq(s) == IF s = <<>> THEN 0 ELSE Head(s) + SumSeq(Tail(s))

\* s with e inserted so that it gets index k (0 <= k <= Len(s))
InsertAt(s, k, e) == SubSeq(s, 1, k) \o <<e>> \o SubSeq(s, k + 1, Len(s))

\* s without its element of index k (0 <= k < Len(s))
RemoveAt(s, k) == SubSeq(s, 1, k) \o SubSeq(s, k + 2, Len(s))

---------------------------------------------------------------------------
(* Cells and tables *)

Cell(txt, cs, rs) == [txt |-> txt, colSpan |-> cs, rowSpan |-> rs]

\* newCell.innerHTML = '<br>'
NewCell == Cell("<br>", 1, 1)

Row(cells) == [cells |-> cells, height |-> 0]

\* The table of the test suite: 2 rows of 3 cells
PlainTable ==
    << Row(<<Cell("A1", 1, 1), Cell("B1", 1, 1), Cell("C1", 1, 1)>>),
       Row(<<Cell("A2", 1, 1), Cell("B2", 1, 1), Cell("C2", 1, 1)>>) >>

\* A 2 x 3 table whose first row holds a cell of two columns
ColSpanTable ==
    << Row(<<Cell("A1", 2, 1), Cell("C1", 1, 1)>>),
       Row(<<Cell("A2", 1, 1), Cell("B2", 1, 1), Cell("C2", 1, 1)>>) >>

\* A 2 x 3 grid in which C1 covers column 2 of both rows and A2 covers
\* columns 0-1 of row 1
RowSpanTable ==
    << Row(<<Cell("A1", 1, 1), Cell("B1", 1, 1), Cell("C1", 1, 2)>>),
       Row(<<Cell("A2", 2, 1)>>) >>

InitialTables == {PlainTable, ColSpanTable, RowSpanTable}

NoDrag == [edge |-> "none"]

Dragging == drag # NoDrag

---------------------------------------------------------------------------
(* Geometry helpers *)

\* getCellColIndex: sum of the colSpans of the preceding siblings
RECURSIVE SpanSum(_, _)
SpanSum(cells, n) ==
    IF n = 0 THEN 0 ELSE cells[n].colSpan + SpanSum(cells, n - 1)

getCellColIndex(tbl, r, c) == SpanSum(tbl[r + 1].cells, c)

\* getColumnCount: visual columns of the first row
getColumnCount(tbl) ==
    IF Len(tbl) = 0 THEN 0 ELSE SpanSum(tbl[1].cells, Len(tbl[1].cells))

\* Width the browser gives visual column k of a table whose colgroup holds
\* the widths cg (<<>> without a colgroup): the col's inline width, else NatW
LayoutColWidth(cg, k) ==
    IF k < Len(cg) /\ cg[k + 1] > 0 THEN cg[k + 1] ELSE Px(NatW)

RECURSIVE LayoutSpanWidth(_, _, _)
LayoutSpanWidth(cg, k, span) ==
    IF span = 0 THEN 0
    ELSE LayoutColWidth(cg, k) + LayoutSpanWidth(cg, k + 1, span - 1)

\* cell.offsetWidth: the columns the cell covers, in whole pixels
offsetWidth(tbl, cg, r, c) ==
    RoundPx(LayoutSpanWidth(cg, getCellColIndex(tbl, r, c),
                            tbl[r + 1].cells[c + 1].colSpan))

\* row.offsetHeight
offsetHeight(tbl, r) ==
    IF tbl[r + 1].height > 0 THEN RoundPx(tbl[r + 1].height) ELSE Px(NatH)

\* getColumnWidths: offsetWidth / span of every first-row cell, once per
\* column it covers
RECURSIVE ColumnWidthsFrom(_, _, _)
ColumnWidthsFrom(tbl, cg, c) ==
    IF c >= Len(tbl[1].cells) THEN <<>>
    ELSE LET span == tbl[1].cells[c + 1].colSpan
             w == offsetWidth(tbl, cg, 0, c) \div span
         IN  [s \in 1..span |-> w] \o ColumnWidthsFrom(tbl, cg, c + 1)

getColumnWidths(tbl, cg) ==
    IF Len(tbl) = 0 THEN <<>> ELSE ColumnWidthsFrom(tbl, cg, 0)

\* getRowHeights
getRowHeights(tbl) == [r \in 1..Len(tbl) |-> offsetHeight(tbl, r - 1)]

\* table.offsetWidth: in the fixed layout the greater of the table's inline
\* width and the sum of its column widths
tableOffsetWidth(tbl, cg, tw) ==
    RoundPx(Max(tw, LayoutSpanWidth(cg, 0, Max(getColumnCount(tbl), Len(cg)))))

\* table.offsetHeight
tableOffsetHeight(tbl) == SumSeq(getRowHeights(tbl))

\* getBoundingClientRect().right / .bottom of the cell of index c in row r
RECURSIVE rectRight(_, _, _, _)
rectRight(tbl, cg, r, c) ==
    IF c < 0 THEN 0
    ELSE rectRight(tbl, cg, r, c - 1) + offsetWidth(tbl, cg, r, c)

RECURSIVE RowsBottom(_, _)
RowsBottom(tbl, r) ==
    IF r < 0 THEN 0 ELSE RowsBottom(tbl, r - 1) + offsetHeight(tbl, r)

rectBottom(tbl, r, c) ==
    RowsBottom(tbl, Min(r + tbl[r + 1].cells[c + 1].rowSpan - 1, Len(tbl) - 1))

---------------------------------------------------------------------------
(* DOM collection methods *)

\* HTMLTableRowElement.insertCell(index) / HTMLTableElement.insertRow(index)
\* throw IndexSizeError for index < -1 or index > length; -1 appends
InsertThrows(len, index) == index < -1 \/ index > len

DomInsert(s, index, e) ==
    IF index = -1 THEN Append(s, e) ELSE InsertAt(s, index, e)

\* deleteCell(index) / deleteRow(index) throw IndexSizeError for index < -1
\* or index >= length; -1 removes the last element, if there is one
DeleteThrows(len, index) == index < -1 \/ index >= len

DomDelete(s, index) ==
    IF index = -1
    THEN (IF s = <<>> THEN s ELSE SubSeq(s, 1, Len(s) - 1))
    ELSE RemoveAt(s, index)

---------------------------------------------------------------------------
(* The table element: its rows, its colgroup and its inline style *)

Tbl == [rows |-> rows, hasColgroup |-> hasColgroup, cols |-> cols,
        tableWidth |-> tableWidth, tableLayoutFixed |-> tableLayoutFixed]

\* The widths the layout reads from the colgroup of t
Cg(t) == IF t.hasColgroup THEN t.cols ELSE <<>>

\* el.style.width = v + 'px': a value that is no length ("NaNpx",
\* "undefinedpx") is dropped and the property keeps its value
SetStyle(old, v) == IF v = NaN THEN old ELSE v

\* applyColumnWidths that sizes the cols of a colgroup only if the table has
\* one
applyColumnWidths_ExistingColgroup(t, widths) ==
    [t EXCEPT !.tableLayoutFixed = TRUE,
              !.tableWidth = SumSeq(widths),
              !.cols = IF t.hasColgroup
                       THEN [i \in 1..Len(widths) |->
                               SetStyle(IF i <= Len(t.cols) THEN t.cols[i] ELSE 0,
                                        widths[i])]
                       ELSE t.cols]

\* applyColumnWidths: fixed layout, table width = sum of the widths, and a
\* colgroup with exactly one col per width
applyColumnWidths(t, widths) ==
    [t EXCEPT !.tableLayoutFixed = TRUE,
              !.tableWidth = SumSeq(widths),
              !.hasColgroup = TRUE,
              !.cols = [i \in 1..Len(widths) |->
                          SetStyle(IF i <= Len(Cg(t)) THEN Cg(t)[i] ELSE 0, widths[i])]]

\* applyRowHeights: heights[i] on rows[i] for every i both have
applyRowHeights(t, heights) ==
    [t EXCEPT !.rows = [i \in 1..Len(t.rows) |->
        IF i <= Len(heights)
        THEN [t.rows[i] EXCEPT !.height = SetStyle(t.rows[i].height, heights[i])]
        ELSE t.rows[i]]]

\* The colgroup resizeColumnDirect works on: the table's, or a new one with
\* one col per current column width
ColgroupOrNew(t) ==
    IF t.hasColgroup THEN t.cols ELSE getColumnWidths(t.rows, <<>>)

\* while (colgroup.children.length < colIndex + 1) append a col without width
PadCols(cg, colIndex) ==
    [i \in 1..Max(Len(cg), colIndex + 1) |-> IF i <= Len(cg) THEN cg[i] ELSE 0]

\* resizeColumnDirect that takes from the next col what it gives to the col
\* of index colIndex, so that the table keeps its width
resizeColumnDirect_Redistribute(t, colIndex, newWidth) ==
    LET padded == PadCols(ColgroupOrNew(t), colIndex)
        given == IF newWidth = NaN THEN 0 ELSE newWidth - padded[colIndex + 1]
        cg == [i \in 1..Len(padded) |->
                 IF i = colIndex + 1 THEN SetStyle(padded[i], newWidth)
                 ELSE IF i = colIndex + 2 THEN padded[i] - given
                 ELSE padded[i]]
    IN  [t EXCEPT !.tableLayoutFixed = TRUE,
                  !.hasColgroup = TRUE,
                  !.cols = cg,
                  !.tableWidth = SumSeq(cg)]

\* resizeColumnDirect: the width of one col, and the table width as the sum
\* of all col widths
resizeColumnDirect(t, colIndex, newWidth) ==
    LET padded == PadCols(ColgroupOrNew(t), colIndex)
        cg == [padded EXCEPT ![colIndex + 1] = SetStyle(@, newWidth)]
    IN  [t EXCEPT !.tableLayoutFixed = TRUE,
                  !.hasColgroup = TRUE,
                  !.cols = cg,
                  !.tableWidth = SumSeq(cg)]

---------------------------------------------------------------------------
(* Edge detection *)

NoHit == [edge |-> "none"]

Hit(edge, colIndex, rowIndex) ==
    [edge |-> edge, colIndex |-> colIndex, rowIndex |-> rowIndex]

\* detectEdge that prefers the row edge when the pointer is near both edges
\* of a cell that is not the last of the table
detectEdge_RowPreferred(t, r, c, clientX, clientY) ==
    LET td == t.rows[r + 1].cells[c + 1]
        nearRight == clientX >= rectRight(t.rows, Cg(t), r, c) - Px(handleSize)
        nearBottom == clientY >= rectBottom(t.rows, r, c) - Px(handleSize)
        colIndex == getCellColIndex(t.rows, r, c)
        rowIndex == r
        isLastCol == colIndex + td.colSpan - 1 = getColumnCount(t.rows) - 1
        isLastRow == rowIndex + td.rowSpan - 1 = Len(t.rows) - 1
    IN  IF ~nearRight /\ ~nearBottom THEN NoHit
        ELSE IF nearRight /\ nearBottom /\ isLastCol /\ isLastRow
        THEN Hit("corner", colIndex, rowIndex)
        ELSE IF nearBottom
        THEN Hit("row", colIndex, rowIndex + td.rowSpan - 1)
        ELSE Hit("col", colIndex + td.colSpan - 1, rowIndex)

\* detectEdge for a pointer at (clientX, clientY) over the cell of index c
\* in row r
detectEdge(t, r, c, clientX, clientY) ==
    LET td == t.rows[r + 1].cells[c + 1]
        nearRight == clientX >= rectRight(t.rows, Cg(t), r, c) - Px(handleSize)
        nearBottom == clientY >= rectBottom(t.rows, r, c) - Px(handleSize)
        colIndex == getCellColIndex(t.rows, r, c)
        rowIndex == r
        isLastCol == colIndex + td.colSpan - 1 = getColumnCount(t.rows) - 1
        isLastRow == rowIndex + td.rowSpan - 1 = Len(t.rows) - 1
    IN  IF ~nearRight /\ ~nearBottom THEN NoHit
        ELSE IF nearRight /\ nearBottom
        THEN (IF isLastCol /\ isLastRow
              THEN Hit("corner", colIndex, rowIndex)
              ELSE Hit("col", colIndex + td.colSpan - 1, rowIndex))
        ELSE IF nearRight
        THEN Hit("col", colIndex + td.colSpan - 1, rowIndex)
        ELSE Hit("row", colIndex, rowIndex + td.rowSpan - 1)

---------------------------------------------------------------------------
(* Table mutation methods.  Each yields the table it leaves, whether it    *)
(* threw, and whether it ended with syncQuill.                             *)

Outcome(t, threw, synced) == [t |-> t, threw |-> threw, synced |-> synced]

\* Index of the first row (1-based) at which a loop over the rows throws,
\* given the set of rows at which its body would; Len(tbl) + 1 when none
FirstThrow(tbl, throwing) ==
    IF throwing = {} THEN Len(tbl) + 1
    ELSE CHOOSE i \in throwing : \A j \in throwing : i <= j

\* insertColumn with the new col always appended to the colgroup instead of
\* inserted before colgroup.children[targetIndex]
insertColumn_ColAppended(t, colIndex, position) ==
    LET targetIndex == IF position = "after" THEN colIndex + 1 ELSE colIndex
        At(cells) == Min(targetIndex, Len(cells))
        newRows == [i \in 1..Len(t.rows) |->
            [t.rows[i] EXCEPT !.cells = DomInsert(@, Max(At(@), -1), NewCell)]]
        newCols == Append(t.cols, Px(minColumnWidth))
    IN  IF t.hasColgroup
        THEN Outcome([t EXCEPT !.rows = newRows, !.cols = newCols,
                               !.tableWidth =
                                   tableOffsetWidth(newRows, newCols, t.tableWidth)
                                   + Px(minColumnWidth)],
                     FALSE, TRUE)
        ELSE Outcome([t EXCEPT !.rows = newRows], FALSE, TRUE)

\* insertColumn with every row's new cell at targetIndex + 1
insertColumn_OneCellLater(t, colIndex, position) ==
    LET targetIndex == IF position = "after" THEN colIndex + 1 ELSE colIndex
        At(cells) == Min(Max(targetIndex + 1, 0), Len(cells))
        newRows == [i \in 1..Len(t.rows) |->
            [t.rows[i] EXCEPT !.cells = DomInsert(@, At(@), NewCell)]]
    IN  Outcome([t EXCEPT !.rows = newRows], FALSE, TRUE)

\* insertColumn(table, colIndex, position)
insertColumn(t, colIndex, position) ==
    LET targetIndex == IF position = "after" THEN colIndex + 1 ELSE colIndex
        At(cells) == Min(targetIndex, Len(cells))
        Throws(cells) == InsertThrows(Len(cells), At(cells))
        stop == FirstThrow(t.rows, {i \in 1..Len(t.rows) : Throws(t.rows[i].cells)})
        newRows == [i \in 1..Len(t.rows) |->
            IF i < stop
            THEN [t.rows[i] EXCEPT !.cells = DomInsert(@, At(@), NewCell)]
            ELSE t.rows[i]]
        newCols ==
            IF targetIndex < Len(t.cols) /\ targetIndex >= 0
            THEN InsertAt(t.cols, targetIndex, Px(minColumnWidth))
            ELSE Append(t.cols, Px(minColumnWidth))
    IN  IF stop <= Len(t.rows)
        THEN Outcome([t EXCEPT !.rows = newRows], TRUE, FALSE)
        ELSE IF t.hasColgroup
        THEN Outcome([t EXCEPT !.rows = newRows,
                               !.cols = newCols,
                               !.tableWidth =
                                   tableOffsetWidth(newRows, newCols, t.tableWidth)
                                   + Px(minColumnWidth)],
                     FALSE, TRUE)
        ELSE Outcome([t EXCEPT !.rows = newRows], FALSE, TRUE)

\* parseInt(style.width, 10) || minColumnWidth, summed over the cols
RECURSIVE ParsedTotal(_)
ParsedTotal(cg) ==
    IF cg = <<>> THEN 0
    ELSE (IF ParseInt(Head(cg)) # 0 THEN ParseInt(Head(cg)) ELSE Px(minColumnWidth))
         + ParsedTotal(Tail(cg))

\* deleteColumn(table, colIndex)
deleteColumn(t, colIndex) ==
    LET Throws(cells) == colIndex < Len(cells) /\ DeleteThrows(Len(cells), colIndex)
        stop == FirstThrow(t.rows, {i \in 1..Len(t.rows) : Throws(t.rows[i].cells)})
        newRows == [i \in 1..Len(t.rows) |->
            IF i < stop /\ colIndex < Len(t.rows[i].cells)
            THEN [t.rows[i] EXCEPT !.cells = DomDelete(@, colIndex)]
            ELSE t.rows[i]]
        newCols == RemoveAt(t.cols, colIndex)
    IN  IF getColumnCount(t.rows) <= 1
        THEN Outcome(t, FALSE, FALSE)
        ELSE IF stop <= Len(t.rows)
        THEN Outcome([t EXCEPT !.rows = newRows], TRUE, FALSE)
        ELSE IF t.hasColgroup /\ colIndex < Len(t.cols)
        THEN (IF colIndex < 0
              \* removeChild(colgroup.children[-1]): TypeError
              THEN Outcome([t EXCEPT !.rows = newRows], TRUE, FALSE)
              ELSE Outcome([t EXCEPT !.rows = newRows,
                                     !.cols = newCols,
                                     !.tableWidth = ParsedTotal(newCols)],
                           FALSE, TRUE))
        ELSE Outcome([t EXCEPT !.rows = newRows], FALSE, TRUE)

\* The row insertRow builds: one empty cell per visual column
BlankRow(colCount) == Row([c \in 1..colCount |-> NewCell])

\* insertRow with one cell per cell of the first row instead of one per
\* visual column
insertRow_CellCount(t, rowIndex, position) ==
    LET targetIndex == IF position = "after" THEN rowIndex + 1 ELSE rowIndex
        colCount == Len(t.rows[1].cells)
        at == Min(targetIndex, Len(t.rows))
    IN  IF InsertThrows(Len(t.rows), at)
        THEN Outcome(t, TRUE, FALSE)
        ELSE Outcome([t EXCEPT !.rows = DomInsert(@, at, BlankRow(colCount))],
                     FALSE, TRUE)

\* insertRow with a single cell in the new row
insertRow_OneCell(t, rowIndex, position) ==
    LET targetIndex == IF position = "after" THEN rowIndex + 1 ELSE rowIndex
        at == Min(targetIndex, Len(t.rows))
    IN  IF InsertThrows(Len(t.rows), at)
        THEN Outcome(t, TRUE, FALSE)
        ELSE Outcome([t EXCEPT !.rows = DomInsert(@, at, BlankRow(1))],
                     FALSE, TRUE)

\* insertRow(table, rowIndex, position)
insertRow(t, rowIndex, position) ==
    LET targetIndex == IF position = "after" THEN rowIndex + 1 ELSE rowIndex
        colCount == getColumnCount(t.rows)
        at == Min(targetIndex, Len(t.rows))
    IN  IF InsertThrows(Len(t.rows), at)
        THEN Outcome(t, TRUE, FALSE)
        ELSE Outcome([t EXCEPT !.rows = DomInsert(@, at, BlankRow(colCount))],
                     FALSE, TRUE)

\* deleteRow without the guard on table.rows.length
deleteRow_NoGuard(t, rowIndex) ==
    IF DeleteThrows(Len(t.rows), rowIndex)
    THEN Outcome(t, TRUE, FALSE)
    ELSE Outcome([t EXCEPT !.rows = DomDelete(@, rowIndex)], FALSE, TRUE)

\* deleteRow(table, rowIndex)
deleteRow(t, rowIndex) ==
    IF Len(t.rows) <= 1
    THEN Outcome(t, FALSE, FALSE)
    ELSE IF DeleteThrows(Len(t.rows), rowIndex)
    THEN Outcome(t, TRUE, FALSE)
    ELSE Outcome([t EXCEPT !.rows = DomDelete(@, rowIndex)], FALSE, TRUE)

---------------------------------------------------------------------------
(* Drag handlers *)

\* The DragState onEditorMouseDown builds
DragState(hit, clientX, clientY, colWidths, rowHeights, tw, th) ==
    [edge |-> hit.edge, startX |-> clientX, startY |-> clientY,
     colIndex |-> hit.colIndex, rowIndex |-> hit.rowIndex,
     colWidths |-> colWidths, rowHeights |-> rowHeights,
     tableWidth |-> tw, tableHeight |-> th]

\* colWidths[colIndex] + dx and rowHeights[rowIndex] + dy, clamped:
\* Math.max(minimum, undefined + d) is NaN
ClampedSize(minimum, snapshot, index, d) ==
    IF index < Len(snapshot) THEN Max(minimum, snapshot[index + 1] + d) ELSE NaN

\* const updated = [...rowHeights]; updated[rowIndex] = newHeight
UpdatedHeights(rowHeights, rowIndex, newHeight) ==
    [i \in 1..Max(Len(rowHeights), rowIndex + 1) |->
        IF i = rowIndex + 1 THEN newHeight
        ELSE IF i <= Len(rowHeights) THEN rowHeights[i] ELSE NaN]

\* The table onDocumentMouseMove leaves for a pointer at (clientX, clientY)
\* during the session d
onDocumentMouseMove(t, d, clientX, clientY) ==
    LET dx == clientX - d.startX
        dy == clientY - d.startY
        newWidth == ClampedSize(Px(minColumnWidth), d.colWidths, d.colIndex, dx)
        newHeight == ClampedSize(Px(minRowHeight), d.rowHeights, d.rowIndex, dy)
        t1 == IF d.edge \in {"col", "corner"}
              THEN resizeColumnDirect(t, d.colIndex, newWidth)
              ELSE t
    IN  IF d.edge \in {"row", "corner"}
        THEN applyRowHeights(t1, UpdatedHeights(d.rowHeights, d.rowIndex, newHeight))
        ELSE t1

---------------------------------------------------------------------------
(* Actions *)

SetTable(t) ==
    /\ rows' = t.rows
    /\ hasColgroup' = t.hasColgroup
    /\ cols' = t.cols
    /\ tableWidth' = t.tableWidth
    /\ tableLayoutFixed' = t.tableLayoutFixed

Ran(op, args, threw) == [op |-> op, args |-> args, threw |-> threw]

NoMenu == [open |-> FALSE]

NoCell == <<>>

\* States of quill.scroll.observer that syncQuill meets: takeRecords works,
\* the observer is missing, takeRecords throws
Hosts == {"working", "absent", "throwing"}

\* The nodes under the table: the cells of every row, the colgroup and the
\* number of its cols
Nodes(t) == <<[i \in 1..Len(t.rows) |-> t.rows[i].cells], t.hasColgroup, Len(t.cols)>>

\* The inline styles under the table
Styles(t) == <<[i \in 1..Len(t.rows) |-> t.rows[i].height], t.cols, t.tableWidth,
               t.tableLayoutFixed>>

\* Types of the mutation records the change of the table from t1 to t2 queues
RecordsOf(t1, t2) ==
    (IF Nodes(t1) # Nodes(t2) THEN {"childList"} ELSE {})
    \cup (IF Styles(t1) # Styles(t2) THEN {"attributes"} ELSE {})

\* syncQuill: scroll.observer.takeRecords() empties the queue p; without the
\* observer, or when takeRecords throws (caught), the queue stays
syncQuill(p) == IF host = "working" THEN {} ELSE p

\* syncQuill without its try block: what takeRecords throws reaches the caller
syncQuillRaises_Uncaught == host = "throwing"

\* Whether syncQuill raises: its catch block swallows what the host throws
syncQuillRaises == FALSE

\* Whether a mutation method with outcome out raises
Raised(out) == out.threw \/ (out.synced /\ syncQuillRaises)

\* The pending hide callbacks after cancelHideEdgeButtons: clearTimeout of
\* the callback the handle holds, the one scheduled last
cancelHideEdgeButtons == IF hideEdgeBtnTimer THEN hideTimers - 1 ELSE hideTimers

\* scheduleHideEdgeButtons without the cancelHideEdgeButtons it starts with
scheduleHideEdgeButtons_NoCancel == hideTimers + 1

\* The pending hide callbacks after scheduleHideEdgeButtons:
\* cancelHideEdgeButtons, then setTimeout(..., 200)
scheduleHideEdgeButtons == cancelHideEdgeButtons + 1

\* The instance after construction, around the table tbl and the host h
InitWith(tbl, h) ==
    /\ rows = tbl
    /\ hasColgroup = FALSE
    /\ cols = <<>>
    /\ tableWidth = 0
    /\ tableLayoutFixed = FALSE
    /\ drag = NoDrag
    /\ overlay = FALSE
    /\ docListeners = {}
    /\ rootListeners = TRUE
    /\ pendingRecords = {}
    /\ last = Ran("constructor", <<>>, FALSE)
    /\ nSteps = 0
    /\ contextMenu = NoMenu
    /\ menuElements = 0
    /\ contextCell = NoCell
    /\ dismissListeners = {}
    /\ dismissTimers = 0
    /\ edgeButtons = FALSE
    /\ hoveredTable = FALSE
    /\ hideEdgeBtnTimer = FALSE
    /\ hideTimers = 0
    /\ scrollListener = FALSE
    /\ tablePresent = TRUE
    /\ host = h
    /\ resizeCells = {}

Init == \E tbl \in InitialTables : InitWith(tbl, "working")

\* Indices a caller passes: two below 0, every index of a column (row), and
\* the one past the end
RowIndices == -2..Len(rows)

ColIndices ==
    -2..Max(getColumnCount(rows), IF rows = <<>> THEN 0 ELSE Len(rows[1].cells))

Positions == {"before", "after"}

\* What a public mutation method with outcome out does to the table and to
\* the host's record queue
TableEffect(out) ==
    /\ tablePresent
    /\ nSteps < MaxSteps
    /\ nSteps' = nSteps + 1
    /\ SetTable(out.t)
    /\ pendingRecords' =
         IF out.synced
         THEN syncQuill(pendingRecords \cup RecordsOf(Tbl, out.t))
         ELSE pendingRecords \cup RecordsOf(Tbl, out.t)

\* A call of a public mutation method with outcome out
ApiCall(op, args, out) ==
    /\ TableEffect(out)
    /\ last' = Ran(op, args, Raised(out))
    /\ UNCHANGED <<drag, overlay, docListeners, rootListeners>>
    /\ UNCHANGED uiVars

InsertColumn(colIndex, position) ==
    ApiCall("insertColumn", <<colIndex, position>>, insertColumn(Tbl, colIndex, position))

DeleteColumn(colIndex) ==
    ApiCall("deleteColumn", <<colIndex>>, deleteColumn(Tbl, colIndex))

InsertRow(rowIndex, position) ==
    ApiCall("insertRow", <<rowIndex, position>>, insertRow(Tbl, rowIndex, position))

DeleteRow(rowIndex) ==
    ApiCall("deleteRow", <<rowIndex>>, deleteRow(Tbl, rowIndex))

\* deleteTable: table.remove(), then syncQuill
TableRemoval ==
    /\ tablePresent
    /\ nSteps < MaxSteps
    /\ nSteps' = nSteps + 1
    /\ tablePresent' = FALSE
    /\ pendingRecords' = syncQuill(pendingRecords \cup {"childList"})
    /\ UNCHANGED <<rows, hasColgroup, cols, tableWidth, tableLayoutFixed>>

DeleteTable ==
    /\ TableRemoval
    /\ last' = Ran("deleteTable", <<>>, syncQuillRaises)
    /\ UNCHANGED <<drag, overlay, docListeners, rootListeners>>
    /\ UNCHANGED <<contextMenu, menuElements, contextCell, dismissListeners, dismissTimers,
                   edgeButtons, hoveredTable, hideEdgeBtnTimer, hideTimers, scrollListener, host, resizeCells>>

\* dismissContextMenu
dismissContextMenu ==
    IF contextMenu # NoMenu
    THEN /\ contextMenu' = NoMenu
         /\ menuElements' = menuElements - 1
         /\ contextCell' = NoCell
         /\ dismissListeners' = {}
    ELSE UNCHANGED <<contextMenu, menuElements, contextCell, dismissListeners>>

\* A mousedown event that reaches the document: onDismissMenuBound, if
\* registered, is dismissContextMenu
MouseDownAtDocument ==
    IF "mousedown" \in dismissListeners
    THEN dismissContextMenu
    ELSE UNCHANGED <<contextMenu, menuElements, contextCell, dismissListeners>>

\* onEditorMouseDown for a pointer over the cell of index c in row r, offR
\* left of its right edge and offB above its bottom edge.  The root carries
\* the listener until destroy; the full-viewport overlay of a running drag
\* takes the pointer events in its place.  Off an edge the handler returns
\* and the event goes on to the document; on an edge it stops there.
EditorMouseDown(r, c, offR, offB) ==
    LET clientX == rectRight(rows, Cg(Tbl), r, c) - Px(offR)
        clientY == rectBottom(rows, r, c) - Px(offB)
        hit == detectEdge(Tbl, r, c, clientX, clientY)
        colWidths == getColumnWidths(rows, Cg(Tbl))
        rowHeights == getRowHeights(rows)
        sized == applyRowHeights(applyColumnWidths(Tbl, colWidths), rowHeights)
    IN  /\ rootListeners
        /\ tablePresent
        /\ ~overlay
        /\ nSteps < MaxSteps
        /\ nSteps' = nSteps + 1
        /\ last' = Ran("mousedown", <<r, c, offR, offB>>, FALSE)
        /\ UNCHANGED <<rootListeners, dismissTimers, edgeButtons, hoveredTable,
                       hideEdgeBtnTimer, hideTimers, scrollListener, tablePresent, host, resizeCells>>
        /\ IF hit = NoHit
           THEN /\ UNCHANGED <<rows, hasColgroup, cols, tableWidth, tableLayoutFixed,
                               drag, overlay, docListeners, pendingRecords>>
                /\ MouseDownAtDocument
           ELSE /\ drag' = DragState(hit, clientX, clientY, colWidths, rowHeights,
                                     tableOffsetWidth(rows, Cg(Tbl), tableWidth),
                                     tableOffsetHeight(rows))
                /\ SetTable(sized)
                /\ overlay' = TRUE
                /\ docListeners' = docListeners \cup {"mousemove", "mouseup"}
                /\ pendingRecords' = pendingRecords \cup RecordsOf(Tbl, sized)
                /\ UNCHANGED <<contextMenu, menuElements, contextCell, dismissListeners>>

\* onDocumentMouseMove for a pointer at the position of the pointer-down plus
\* delta; resizeColumnDirect ends with syncQuill, applyRowHeights does not
DocumentMouseMove(delta) ==
    /\ "mousemove" \in docListeners
    /\ last' = Ran("mousemove", delta, FALSE)
    /\ UNCHANGED <<drag, overlay, docListeners, rootListeners, nSteps>>
    /\ UNCHANGED uiVars
    /\ IF ~Dragging
       THEN UNCHANGED <<rows, hasColgroup, cols, tableWidth, tableLayoutFixed,
                        pendingRecords>>
       ELSE LET newWidth == ClampedSize(Px(minColumnWidth), drag.colWidths,
                                        drag.colIndex, Px(delta[1]))
                t1 == IF drag.edge \in {"col", "corner"}
                      THEN resizeColumnDirect(Tbl, drag.colIndex, newWidth)
                      ELSE Tbl
                t2 == onDocumentMouseMove(Tbl, drag, drag.startX + Px(delta[1]),
                                          drag.startY + Px(delta[2]))
                p1 == IF drag.edge \in {"col", "corner"}
                      THEN syncQuill(pendingRecords \cup RecordsOf(Tbl, t1))
                      ELSE pendingRecords
            IN  /\ SetTable(t2)
                /\ pendingRecords' = p1 \cup RecordsOf(t1, t2)

\* onDocumentMouseUp
DocumentMouseUp ==
    /\ "mouseup" \in docListeners
    /\ docListeners' = docListeners \ {"mousemove", "mouseup"}
    /\ drag' = NoDrag
    /\ overlay' = FALSE
    /\ last' = Ran("mouseup", <<>>, FALSE)
    /\ UNCHANGED <<rows, hasColgroup, cols, tableWidth, tableLayoutFixed,
                   rootListeners, pendingRecords, nSteps>>
    /\ UNCHANGED uiVars

\* destroy: the root and document listeners, removeOverlay,
\* dismissContextMenu, removeEdgeButtons
Destroy ==
    /\ rootListeners
    /\ rootListeners' = FALSE
    /\ docListeners' = docListeners \ {"mousemove", "mouseup"}
    /\ overlay' = FALSE
    /\ dismissContextMenu
    /\ edgeButtons' = FALSE
    /\ hideEdgeBtnTimer' = FALSE
    /\ hideTimers' = cancelHideEdgeButtons
    /\ scrollListener' = FALSE
    /\ last' = Ran("destroy", <<>>, FALSE)
    /\ UNCHANGED <<rows, hasColgroup, cols, tableWidth, tableLayoutFixed,
                   drag, pendingRecords, nSteps>>
    /\ UNCHANGED <<dismissTimers, hoveredTable, tablePresent, host, resizeCells>>

Next ==
    \/ \E i \in ColIndices, p \in Positions : InsertColumn(i, p)
    \/ \E i \in ColIndices : DeleteColumn(i)
    \/ \E i \in RowIndices, p \in Positions : InsertRow(i, p)
    \/ \E i \in RowIndices : DeleteRow(i)
    \/ \E r \in 0..(Len(rows) - 1) :
         \E c \in 0..(Len(rows[r + 1].cells) - 1) :
           \E offR \in EdgeOffsets, offB \in EdgeOffsets :
             EditorMouseDown(r, c, offR, offB)
    \/ \E delta \in Deltas : DocumentMouseMove(delta)
    \/ DocumentMouseUp
    \/ Destroy

Spec == Init /\ [][Next]_vars

---------------------------------------------------------------------------
(* Context menu, hover buttons and host *)

\* A table of one cell: both delete items of its menu are disabled
OneCellTable == << Row(<<Cell("A1", 1, 1)>>) >>

UiTables == {PlainTable, OneCellTable}

\* The items of showContextMenu with no item ever disabled
MenuItems_AllEnabled(colCount, rowCount) ==
    [k \in 1..7 |->
        [label |-> <<"Insert Column Left", "Insert Column Right", "Delete Column",
                     "Insert Row Above", "Insert Row Below", "Delete Row",
                     "Delete Table">>[k],
         disabled |-> FALSE]]

\* The items showContextMenu builds for a table of colCount visual columns
\* and rowCount rows
MenuItems(colCount, rowCount) ==
    << [label |-> "Insert Column Left", disabled |-> FALSE],
       [label |-> "Insert Column Right", disabled |-> FALSE],
       [label |-> "Delete Column", disabled |-> colCount <= 1],
       [label |-> "Insert Row Above", disabled |-> FALSE],
       [label |-> "Insert Row Below", disabled |-> FALSE],
       [label |-> "Delete Row", disabled |-> rowCount <= 1],
       [label |-> "Delete Table", disabled |-> FALSE] >>

\* showContextMenu without the Delete Table item
showContextMenu_SixItems(tbl, r, c) ==
    [open |-> TRUE,
     colIndex |-> getCellColIndex(tbl, r, c),
     rowIndex |-> r,
     items |-> SubSeq(MenuItems(getColumnCount(tbl), Len(tbl)), 1, 6)]

\* The menu showContextMenu opens on the cell of index c in row r
showContextMenu(tbl, r, c) ==
    [open |-> TRUE,
     colIndex |-> getCellColIndex(tbl, r, c),
     rowIndex |-> r,
     items |-> MenuItems(getColumnCount(tbl), Len(tbl))]

\* onContextMenu and a showContextMenu that does not start with
\* dismissContextMenu
ContextMenu_NoDismiss(r, c) ==
    /\ rootListeners
    /\ tablePresent
    /\ ~overlay
    /\ nSteps < MaxSteps
    /\ nSteps' = nSteps + 1
    /\ contextCell' = <<r, c>>
    /\ menuElements' = menuElements + 1
    /\ contextMenu' = showContextMenu(rows, r, c)
    /\ dismissTimers' = dismissTimers + 1
    /\ last' = Ran("contextmenu", <<r, c>>, FALSE)
    /\ UNCHANGED <<rows, hasColgroup, cols, tableWidth, tableLayoutFixed, drag,
                   overlay, docListeners, rootListeners, pendingRecords>>
    /\ UNCHANGED <<dismissListeners, edgeButtons, hoveredTable, hideEdgeBtnTimer, hideTimers,
                   scrollListener, tablePresent, host, resizeCells>>

\* onContextMenu on the cell of index c in row r: contextCell = td, then
\* showContextMenu, which starts with dismissContextMenu and ends with
\* setTimeout(register the dismiss listeners, 0)
ContextMenu(r, c) ==
    /\ rootListeners
    /\ tablePresent
    /\ ~overlay
    /\ nSteps < MaxSteps
    /\ nSteps' = nSteps + 1
    /\ contextCell' = IF contextMenu # NoMenu THEN NoCell ELSE <<r, c>>
    /\ dismissListeners' = IF contextMenu # NoMenu THEN {} ELSE dismissListeners
    /\ menuElements' = (IF contextMenu # NoMenu THEN menuElements - 1 ELSE menuElements) + 1
    /\ contextMenu' = showContextMenu(rows, r, c)
    /\ dismissTimers' = dismissTimers + 1
    /\ last' = Ran("contextmenu", <<r, c>>, FALSE)
    /\ UNCHANGED <<rows, hasColgroup, cols, tableWidth, tableLayoutFixed, drag,
                   overlay, docListeners, rootListeners, pendingRecords>>
    /\ UNCHANGED <<edgeButtons, hoveredTable, hideEdgeBtnTimer, hideTimers, scrollListener,
                   tablePresent, host, resizeCells>>

\* onContextMenu that closes an open menu when the target is in no cell
ContextMenuOutsideCell_Dismisses ==
    /\ rootListeners
    /\ ~overlay
    /\ dismissContextMenu
    /\ last' = Ran("contextmenu", <<>>, FALSE)
    /\ UNCHANGED <<rows, hasColgroup, cols, tableWidth, tableLayoutFixed, drag,
                   overlay, docListeners, rootListeners, pendingRecords, nSteps>>
    /\ UNCHANGED <<dismissTimers, edgeButtons, hoveredTable, hideEdgeBtnTimer, hideTimers,
                   scrollListener, tablePresent, host, resizeCells>>

\* onContextMenu on a target that is in no cell: if (!td) return
ContextMenuOutsideCell ==
    /\ rootListeners
    /\ ~overlay
    /\ last' = Ran("contextmenu", <<>>, FALSE)
    /\ UNCHANGED <<rows, hasColgroup, cols, tableWidth, tableLayoutFixed, drag,
                   overlay, docListeners, rootListeners, pendingRecords, nSteps>>
    /\ UNCHANGED uiVars

\* The callback of setTimeout(..., 0) in showContextMenu
DismissTimerFires ==
    /\ dismissTimers > 0
    /\ dismissTimers' = dismissTimers - 1
    /\ dismissListeners' = {"mousedown", "keydown"}
    /\ last' = Ran("timeout", <<"dismiss">>, FALSE)
    /\ UNCHANGED <<rows, hasColgroup, cols, tableWidth, tableLayoutFixed, drag,
                   overlay, docListeners, rootListeners, pendingRecords, nSteps>>
    /\ UNCHANGED <<contextMenu, menuElements, contextCell, edgeButtons, hoveredTable,
                   hideEdgeBtnTimer, hideTimers, scrollListener, tablePresent, host, resizeCells>>

\* Outcome of the action of item k of the menu m (k <= 6)
ItemOutcome(m, k) ==
    CASE k = 1 -> insertColumn(Tbl, m.colIndex, "before")
      [] k = 2 -> insertColumn(Tbl, m.colIndex, "after")
      [] k = 3 -> deleteColumn(Tbl, m.colIndex)
      [] k = 4 -> insertRow(Tbl, m.rowIndex, "before")
      [] k = 5 -> insertRow(Tbl, m.rowIndex, "after")
      [] OTHER -> deleteRow(Tbl, m.rowIndex)

\* A pointer-down on item k of the open menu.  An enabled item stops the
\* event, runs its action and then dismissContextMenu (not reached when the
\* action throws); a disabled item has no listener and the event goes on to
\* the document.
MenuItemMouseDown(k) ==
    /\ contextMenu # NoMenu
    /\ k \in DOMAIN contextMenu.items
    /\ ~overlay
    /\ UNCHANGED <<drag, overlay, docListeners, rootListeners>>
    /\ UNCHANGED <<dismissTimers, edgeButtons, hoveredTable, hideEdgeBtnTimer, hideTimers,
                   scrollListener, host, resizeCells>>
    /\ IF contextMenu.items[k].disabled
       THEN /\ MouseDownAtDocument
            /\ last' = Ran("menuitem", <<k, "disabled">>, FALSE)
            /\ UNCHANGED <<rows, hasColgroup, cols, tableWidth, tableLayoutFixed,
                           pendingRecords, nSteps, tablePresent>>
       ELSE IF k = 7
       THEN /\ TableRemoval
            /\ dismissContextMenu
            /\ last' = Ran("menuitem", <<k, "enabled">>, FALSE)
       ELSE /\ TableEffect(ItemOutcome(contextMenu, k))
            /\ last' = Ran("menuitem", <<k, "enabled">>, Raised(ItemOutcome(contextMenu, k)))
            /\ UNCHANGED tablePresent
            /\ IF Raised(ItemOutcome(contextMenu, k))
               THEN UNCHANGED <<contextMenu, menuElements, contextCell, dismissListeners>>
               ELSE dismissContextMenu

\* A pointer-down in the document on no cell edge, menu item or hover button
OutsideMouseDown ==
    /\ MouseDownAtDocument
    /\ last' = Ran("mousedown", <<>>, FALSE)
    /\ UNCHANGED <<rows, hasColgroup, cols, tableWidth, tableLayoutFixed, drag,
                   overlay, docListeners, rootListeners, pendingRecords, nSteps>>
    /\ UNCHANGED <<dismissTimers, edgeButtons, hoveredTable, hideEdgeBtnTimer, hideTimers,
                   scrollListener, tablePresent, host, resizeCells>>

\* A keydown of Escape in the document: onKeyDown, if registered
EscapeKeyDown ==
    /\ IF "keydown" \in dismissListeners
       THEN dismissContextMenu
       ELSE UNCHANGED <<contextMenu, menuElements, contextCell, dismissListeners>>
    /\ last' = Ran("keydown", <<"Escape">>, FALSE)
    /\ UNCHANGED <<rows, hasColgroup, cols, tableWidth, tableLayoutFixed, drag,
                   overlay, docListeners, rootListeners, pendingRecords, nSteps>>
    /\ UNCHANGED <<dismissTimers, edgeButtons, hoveredTable, hideEdgeBtnTimer, hideTimers,
                   scrollListener, tablePresent, host, resizeCells>>

Buttons == {"addCol", "addRow", "deleteTable"}

\* Where the pointer goes when it leaves the table or a button
RelatedTargets == {"table", "addCol", "addRow", "deleteTable", "outside"}

\* The part of the instance the hover handlers leave alone
HoverFrame ==
    /\ UNCHANGED <<rows, hasColgroup, cols, tableWidth, tableLayoutFixed, drag,
                   overlay, docListeners, rootListeners, pendingRecords, nSteps>>
    /\ UNCHANGED <<contextMenu, menuElements, contextCell, dismissListeners, dismissTimers,
                   tablePresent, host, resizeCells>>

\* Whether a hide of the hover buttons is scheduled
HidePending == IF hideEdgeBtnTimer THEN "pending" ELSE "idle"

\* onEditorMouseOver with a target inside the table: cancel a pending hide;
\* for a table that is not the hovered one also removeEdgeButtons and
\* showEdgeButtons
MouseOverTable ==
    /\ rootListeners
    /\ tablePresent
    /\ ~overlay
    /\ hideEdgeBtnTimer' = FALSE
    /\ hideTimers' = cancelHideEdgeButtons
    /\ IF hoveredTable
       THEN UNCHANGED <<edgeButtons, hoveredTable, scrollListener>>
       ELSE /\ hoveredTable' = TRUE
            /\ edgeButtons' = TRUE
            /\ scrollListener' = TRUE
    /\ last' = Ran("mouseover", <<HidePending>>, FALSE)
    /\ HoverFrame

\* onEditorMouseOut with relatedTarget related: nothing without a hovered
\* table or when the pointer stays on the table or goes to a button; else
\* scheduleHideEdgeButtons
MouseOutTable(related) ==
    /\ rootListeners
    /\ tablePresent
    /\ ~overlay
    /\ related \in Buttons => edgeButtons
    /\ hideEdgeBtnTimer' =
         IF hoveredTable /\ related = "outside" THEN TRUE ELSE hideEdgeBtnTimer
    /\ hideTimers' =
         IF hoveredTable /\ related = "outside"
         THEN scheduleHideEdgeButtons ELSE hideTimers
    /\ last' = Ran("mouseout", <<related, HidePending>>, FALSE)
    /\ UNCHANGED <<edgeButtons, hoveredTable, scrollListener>>
    /\ HoverFrame

\* mouseenter on the hover button b without cancelHideEdgeButtons
ButtonMouseEnter_NoCancel(b) ==
    /\ edgeButtons
    /\ ~overlay
    /\ last' = Ran("mouseenter", <<b, HidePending>>, FALSE)
    /\ UNCHANGED <<edgeButtons, hoveredTable, scrollListener, hideEdgeBtnTimer, hideTimers>>
    /\ HoverFrame

\* mouseenter on the hover button b: cancelHideEdgeButtons
ButtonMouseEnter(b) ==
    /\ edgeButtons
    /\ ~overlay
    /\ hideEdgeBtnTimer' = FALSE
    /\ hideTimers' = cancelHideEdgeButtons
    /\ last' = Ran("mouseenter", <<b, HidePending>>, FALSE)
    /\ UNCHANGED <<edgeButtons, hoveredTable, scrollListener>>
    /\ HoverFrame

\* The relatedTargets for which the mouseleave listener of b returns at once
StaysFrom(b) ==
    CASE b = "addCol" -> {"table", "addRow"}
      [] b = "addRow" -> {"table", "addCol"}
      [] OTHER -> {"table", "addCol", "addRow"}

\* mouseleave on the hover button b towards related
ButtonMouseLeave(b, related) ==
    /\ edgeButtons
    /\ ~overlay
    /\ related # b
    /\ related = "table" => tablePresent
    /\ hideEdgeBtnTimer' = IF related \in StaysFrom(b) THEN hideEdgeBtnTimer ELSE TRUE
    /\ hideTimers' = IF related \in StaysFrom(b) THEN hideTimers ELSE scheduleHideEdgeButtons
    /\ last' = Ran("mouseleave", <<b, related, HidePending>>, FALSE)
    /\ UNCHANGED <<edgeButtons, hoveredTable, scrollListener>>
    /\ HoverFrame

\* The callback of scheduleHideEdgeButtons: removeEdgeButtons and
\* hoveredTable = null
HideTimerFires ==
    /\ hideTimers > 0
    /\ hideEdgeBtnTimer' = FALSE
    /\ hideTimers' = IF hideEdgeBtnTimer /\ hideTimers > 1
                      THEN hideTimers - 2 ELSE hideTimers - 1
    /\ edgeButtons' = FALSE
    /\ scrollListener' = FALSE
    /\ hoveredTable' = FALSE
    /\ last' = Ran("timeout", <<"hide">>, FALSE)
    /\ HoverFrame

\* mousedown on the hover button b: the event is stopped, the pending hide
\* cancelled; the add buttons call insertColumn(table, colCount - 1, 'after')
\* or insertRow(table, rows.length - 1, 'after') and then removeEdgeButtons
\* and showEdgeButtons; the delete button calls deleteTable and then
\* removeEdgeButtons
ButtonMouseDown(b) ==
    LET out == IF b = "addCol"
               THEN insertColumn(Tbl, getColumnCount(rows) - 1, "after")
               ELSE insertRow(Tbl, Len(rows) - 1, "after")
    IN  /\ edgeButtons
        /\ ~overlay
        /\ hideEdgeBtnTimer' = FALSE
        /\ hideTimers' = cancelHideEdgeButtons
        /\ last' = Ran("button", <<b>>, FALSE)
        /\ UNCHANGED <<drag, overlay, docListeners, rootListeners>>
        /\ UNCHANGED <<contextMenu, menuElements, contextCell, dismissListeners, dismissTimers,
                       hoveredTable, host, resizeCells>>
        /\ IF b = "deleteTable"
           THEN /\ TableRemoval
                /\ edgeButtons' = FALSE
                /\ scrollListener' = FALSE
           ELSE /\ TableEffect(out)
                /\ ~out.threw
                /\ edgeButtons' = TRUE
                /\ scrollListener' = TRUE
                /\ UNCHANGED tablePresent

\* The instance after construction around one of the tables of UiTables and
\* any host
UiInit == \E tbl \in UiTables, h \in Hosts : InitWith(tbl, h)

\* Indices the direct calls pass next to the menu and the buttons: the
\* first and the last
UiIndices(n) == {0, n - 1}

\* The pointer-move of the drags next to the menu and the buttons
UiDeltas == {<<30, 20>>}

UiNext ==
    \/ \E i \in UiIndices(getColumnCount(rows)), p \in Positions : InsertColumn(i, p)
    \/ \E i \in UiIndices(getColumnCount(rows)) : DeleteColumn(i)
    \/ \E i \in UiIndices(Len(rows)), p \in Positions : InsertRow(i, p)
    \/ \E i \in UiIndices(Len(rows)) : DeleteRow(i)
    \/ DeleteTable
    \/ \E offR \in EdgeOffsets, offB \in EdgeOffsets :
         EditorMouseDown(0, 0, offR, offB)
    \/ \E delta \in UiDeltas : DocumentMouseMove(delta)
    \/ DocumentMouseUp
    \/ Destroy
    \/ \E r \in 0..(Len(rows) - 1) :
         \E c \in 0..(Len(rows[r + 1].cells) - 1) : ContextMenu(r, c)
    \/ ContextMenuOutsideCell
    \/ DismissTimerFires
    \/ \E k \in 1..7 : MenuItemMouseDown(k)
    \/ OutsideMouseDown
    \/ EscapeKeyDown
    \/ MouseOverTable
    \/ \E related \in RelatedTargets : MouseOutTable(related)
    \/ \E b \in Buttons : ButtonMouseEnter(b)
    \/ \E b \in Buttons, related \in RelatedTargets : ButtonMouseLeave(b, related)
    \/ HideTimerFires
    \/ \E b \in Buttons : ButtonMouseDown(b)

UiSpec == UiInit /\ [][UiNext]_vars

---------------------------------------------------------------------------
(* Table creation *)

\* insertNewTable(rows = 3, cols = 3)
DefaultRows == 3

DefaultCols == 3

\* Counts passed to insertNewTable
Counts == -1..3

\* Argument lists of insertNewTable: none (the toolbar handler), rows, or
\* rows and cols
ArgLists ==
    {<<>>} \cup {<<r>> : r \in Counts} \cup {<<r, c>> : r \in Counts, c \in Counts}

\* quill.getSelection(true): null (the empty tuple) or a range, of which only
\* the index is used
Ranges == {<<>>, <<0>>, <<4>>}

RowsArg(args) == IF Len(args) >= 1 THEN args[1] ELSE DefaultRows

ColsArg(args) == IF Len(args) >= 2 THEN args[2] ELSE DefaultCols

\* s.repeat(count) raises RangeError for a negative count
RepeatThrows(count) == count < 0

\* The table of `<tr>${cellHTML.repeat(cols)}</tr>`.repeat(rows)
TableOf(nRows, nCols) == [r \in 1..nRows |-> Row([c \in 1..nCols |-> NewCell])]

\* What insertNewTable hands to the host
Pasted(pasted, index, tbl, threw) ==
    [pasted |-> pasted, index |-> index, t |-> tbl, threw |-> threw, synced |-> pasted]

\* insertNewTable with the two counts exchanged
insertNewTable_Transposed(range, args) ==
    IF range = <<>> THEN Pasted(FALSE, 0, <<>>, FALSE)
    ELSE IF RepeatThrows(ColsArg(args)) \/ RepeatThrows(RowsArg(args))
    THEN Pasted(FALSE, 0, <<>>, TRUE)
    ELSE Pasted(TRUE, range[1], TableOf(ColsArg(args), RowsArg(args)), FALSE)

\* insertNewTable: nothing without a selection; else the table markup is
\* pasted at range.index and syncQuill follows
insertNewTable(range, args) ==
    IF range = <<>> THEN Pasted(FALSE, 0, <<>>, FALSE)
    ELSE IF RepeatThrows(ColsArg(args)) \/ RepeatThrows(RowsArg(args))
    THEN Pasted(FALSE, 0, <<>>, TRUE)
    ELSE Pasted(TRUE, range[1], TableOf(RowsArg(args), ColsArg(args)), FALSE)

\* A call named op of insertNewTable in an editor that holds no table, while
\* the host reports the selection range
TableCreation(op, range, args) ==
    LET out == insertNewTable(range, args)
    IN  /\ ~tablePresent
        /\ nSteps < MaxSteps
        /\ nSteps' = nSteps + 1
        /\ last' = Ran(op, <<range, args>>, Raised(out))
        /\ IF out.pasted
           THEN /\ SetTable([rows |-> out.t, hasColgroup |-> FALSE, cols |-> <<>>,
                             tableWidth |-> 0, tableLayoutFixed |-> FALSE])
                /\ tablePresent' = TRUE
                /\ pendingRecords' = syncQuill(pendingRecords \cup {"childList"})
           ELSE UNCHANGED <<rows, hasColgroup, cols, tableWidth, tableLayoutFixed,
                            tablePresent, pendingRecords>>
        /\ UNCHANGED <<drag, overlay, docListeners, rootListeners>>
        /\ UNCHANGED <<contextMenu, menuElements, contextCell, dismissListeners,
                       dismissTimers, edgeButtons, hoveredTable, hideEdgeBtnTimer, hideTimers,
                       scrollListener, host, resizeCells>>

InsertNewTable(range, args) == TableCreation("insertNewTable", range, args)

\* The handler registerToolbarHandler adds for 'table': insertNewTable()
ToolbarTable(range) == TableCreation("toolbar", range, <<>>)

\* The instance after construction in an editor without a table
InsertInit ==
    \E h \in Hosts :
        /\ rows = <<>>
        /\ hasColgroup = FALSE
        /\ cols = <<>>
        /\ tableWidth = 0
        /\ tableLayoutFixed = FALSE
        /\ drag = NoDrag
        /\ overlay = FALSE
        /\ docListeners = {}
        /\ rootListeners = TRUE
        /\ pendingRecords = {}
        /\ last = Ran("constructor", <<>>, FALSE)
        /\ nSteps = 0
        /\ contextMenu = NoMenu
        /\ menuElements = 0
        /\ contextCell = NoCell
        /\ dismissListeners = {}
        /\ dismissTimers = 0
        /\ edgeButtons = FALSE
        /\ hoveredTable = FALSE
        /\ hideEdgeBtnTimer = FALSE
        /\ hideTimers = 0
        /\ scrollListener = FALSE
        /\ tablePresent = FALSE
        /\ host = h
        /\ resizeCells = {}

InsertNext ==
    \/ \E range \in Ranges, args \in ArgLists : InsertNewTable(range, args)
    \/ \E range \in Ranges : ToolbarTable(range)
    \/ \E i \in UiIndices(getColumnCount(rows)), p \in Positions : InsertColumn(i, p)
    \/ \E i \in UiIndices(getColumnCount(rows)) : DeleteColumn(i)
    \/ \E i \in UiIndices(Len(rows)), p \in Positions : InsertRow(i, p)
    \/ \E i \in UiIndices(Len(rows)) : DeleteRow(i)
    \/ DeleteTable

InsertSpec == InsertInit /\ [][InsertNext]_vars

---------------------------------------------------------------------------
(* Edge detection under the pointer *)

\* Distances of the pointer from the right / bottom edge of the cell under
\* it: on the edge, at the limit of the grab zone, just outside it
ProbeOffsets == {0, 5, 6}

EdgeTables == InitialTables \cup {OneCellTable}

\* onEditorMouseMove that puts the class on the cell without clearing the
\* resize classes first
resizeClasses_NoClear(classes, r, c, edge) ==
    IF edge = "none" THEN classes ELSE classes \cup {<<r, c, edge>>}

\* The cells with a resize class after onEditorMouseMove outside a session:
\* every class is removed, then the class of the detected edge is put on the
\* cell under the pointer
resizeClasses(classes, r, c, edge) ==
    IF edge = "none" THEN {} ELSE {<<r, c, edge>>}

\* onEditorMouseMove for a pointer over the cell of index c in row r, offR
\* left of its right edge and offB above its bottom edge: nothing during a
\* drag; else the resize classes are cleared and the class of the detected
\* edge, if any, is put on the cell
EditorMouseMove(r, c, offR, offB) ==
    LET clientX == rectRight(rows, Cg(Tbl), r, c) - Px(offR)
        clientY == rectBottom(rows, r, c) - Px(offB)
        hit == detectEdge(Tbl, r, c, clientX, clientY)
    IN  /\ rootListeners
        /\ tablePresent
        /\ last' = Ran("hover", <<r, c, offR, offB, IF Dragging THEN "none" ELSE hit.edge>>,
                       FALSE)
        /\ resizeCells' =
             IF Dragging THEN resizeCells
             ELSE resizeClasses(resizeCells, r, c, hit.edge)
        /\ UNCHANGED <<rows, hasColgroup, cols, tableWidth, tableLayoutFixed, drag,
                       overlay, docListeners, rootListeners, pendingRecords, nSteps>>
        /\ UNCHANGED <<contextMenu, menuElements, contextCell, dismissListeners,
                       dismissTimers, edgeButtons, hoveredTable, hideEdgeBtnTimer,
                       hideTimers, scrollListener, tablePresent, host>>

EdgeInit == \E tbl \in EdgeTables : InitWith(tbl, "working")

EdgeNext ==
    \/ \E r \in 0..(Len(rows) - 1) :
         \E c \in 0..(Len(rows[r + 1].cells) - 1) :
           \E offR \in ProbeOffsets, offB \in ProbeOffsets :
             EditorMouseMove(r, c, offR, offB)
    \/ \E r \in 0..(Len(rows) - 1) :
         \E c \in 0..(Len(rows[r + 1].cells) - 1) :
           \E offR \in ProbeOffsets, offB \in ProbeOffsets :
             EditorMouseDown(r, c, offR, offB)
    \/ DocumentMouseUp

EdgeSpec == EdgeInit /\ [][EdgeNext]_vars

---------------------------------------------------------------------------
(* Tables with a colgroup *)

\* Widths a col of the colgroup has: unset (a col resizeColumnDirect padded
\* the colgroup with), minColumnWidth, the natural width of a cell
ColWidthChoices == {0, Px(minColumnWidth), Px(NatW)}

\* The colgroups of n cols
ColgroupsOf(n) == [1..n -> ColWidthChoices]

\* The instance around a table that already has its colgroup
ColgroupInit ==
    \E tbl \in InitialTables :
      \E cg \in ColgroupsOf(getColumnCount(tbl)) :
        /\ rows = tbl
        /\ hasColgroup = TRUE
        /\ cols = cg
        /\ tableWidth = SumSeq(cg)
        /\ tableLayoutFixed = TRUE
        /\ drag = NoDrag
        /\ overlay = FALSE
        /\ docListeners = {}
        /\ rootListeners = TRUE
        /\ pendingRecords = {}
        /\ last = Ran("constructor", <<>>, FALSE)
        /\ nSteps = 0
        /\ contextMenu = NoMenu
        /\ menuElements = 0
        /\ contextCell = NoCell
        /\ dismissListeners = {}
        /\ dismissTimers = 0
        /\ edgeButtons = FALSE
        /\ hoveredTable = FALSE
        /\ hideEdgeBtnTimer = FALSE
        /\ hideTimers = 0
        /\ scrollListener = FALSE
        /\ tablePresent = TRUE
        /\ host = "working"
        /\ resizeCells = {}

ColgroupNext ==
    \/ \E i \in ColIndices, p \in Positions : InsertColumn(i, p)
    \/ \E i \in ColIndices : DeleteColumn(i)

ColgroupSpec == ColgroupInit /\ [][ColgroupNext]_vars

---------------------------------------------------------------------------
(* Context menu on tables with spanning cells *)

MenuInit == \E tbl \in InitialTables : InitWith(tbl, "working")

MenuNext ==
    \/ \E r \in 0..(Len(rows) - 1) :
         \E c \in 0..(Len(rows[r + 1].cells) - 1) : ContextMenu(r, c)
    \/ DismissTimerFires
    \/ \E k \in 1..7 : MenuItemMouseDown(k)
    \/ OutsideMouseDown
    \/ EscapeKeyDown

MenuSpec == MenuInit /\ [][MenuNext]_vars

---------------------------------------------------------------------------
(* Hover buttons on tables with spanning cells *)

ButtonInit == \E tbl \in InitialTables : InitWith(tbl, "working")

ButtonNext ==
    \/ \E i \in UiIndices(getColumnCount(rows)) : DeleteColumn(i)
    \/ \E i \in UiIndices(Len(rows)) : DeleteRow(i)
    \/ MouseOverTable
    \/ \E related \in RelatedTargets : MouseOutTable(related)
    \/ \E b \in Buttons : ButtonMouseEnter(b)
    \/ \E b \in Buttons, related \in RelatedTargets : ButtonMouseLeave(b, related)
    \/ HideTimerFires
    \/ \E b \in Buttons : ButtonMouseDown(b)

ButtonSpec == ButtonInit /\ [][ButtonNext]_vars

---------------------------------------------------------------------------
(* Rectangular tables under calls with in-range indices *)

\* A table of 3 rows of 2 cells
TallTable ==
    << Row(<<Cell("A1", 1, 1), Cell("B1", 1, 1)>>),
       Row(<<Cell("A2", 1, 1), Cell("B2", 1, 1)>>),
       Row(<<Cell("A3", 1, 1), Cell("B3", 1, 1)>>) >>

\* Tables without spanning cells whose rows have the same number of cells
RectTables == {PlainTable, OneCellTable, TallTable}

RectInit == \E tbl \in RectTables : InitWith(tbl, "working")

RectNext ==
    \/ \E i \in 0..(getColumnCount(rows) - 1), p \in Positions : InsertColumn(i, p)
    \/ \E i \in 0..(getColumnCount(rows) - 1) : DeleteColumn(i)
    \/ \E i \in 0..(Len(rows) - 1), p \in Positions : InsertRow(i, p)
    \/ \E i \in 0..(Len(rows) - 1) : DeleteRow(i)

RectSpec == RectInit /\ [][RectNext]_vars

---------------------------------------------------------------------------
(* Properties *)

\* The table fields, unchanged by a step
TableUnchanged ==
    /\ rows' = rows
    /\ hasColgroup' = hasColgroup
    /\ cols' = cols
    /\ tableWidth' = tableWidth
    /\ tableLayoutFixed' = tableLayoutFixed

\* C1: after any sequence of drag sessions and structural operations,
\* whenever the table has a colgroup, the number of its col entries equals
\* the table's visual column count (sum of the colSpans of the first row's
\* cells).  Stated for the states a structural operation that returned
\* normally leaves outside a session.
C1_OverlayMatchesColumns ==
    (/\ hasColgroup
     /\ ~Dragging
     /\ last.op \in {"insertColumn", "deleteColumn", "insertRow", "deleteRow"}
     /\ ~last.threw) => Len(cols) = getColumnCount(rows)

\* C2: the table keeps at least one row and at least one visual column
\* through every sequence of insertColumn, deleteColumn, insertRow and
\* deleteRow calls.
C2_AtLeastOneRowAndColumn ==
    Len(rows) >= 1 /\ getColumnCount(rows) >= 1

\* C10 (state part): the overlay element and the document-level mousemove
\* and mouseup listeners are present if and only if a session is active.
C10_PresentIffSession ==
    /\ overlay <=> Dragging
    /\ docListeners = (IF Dragging THEN {"mousemove", "mouseup"} ELSE {})

\* C10 (step part): a session starts only at a pointer-down, ends only at a
\* pointer-up, every pointer-up ends it, and a pointer-move without a
\* session changes no table geometry.
C10_SessionSteps ==
    /\ (~Dragging /\ Dragging') => last'.op = "mousedown"
    /\ (Dragging /\ ~Dragging') => last'.op = "mouseup"
    /\ last'.op = "mouseup" => ~Dragging'
    /\ (last'.op = "mousemove" /\ ~Dragging) => TableUnchanged

\* C10: the drag controller is the two-state machine Idle -> Dragging ->
\* Idle: a session exists exactly between a pointer-down on a detected edge
\* and the next pointer-up, the overlay and the document-level listeners are
\* present if and only if a session is active, and without a session
\* pointer-moves change no table geometry.
C10_DragStateMachine ==
    [][C10_PresentIffSession /\ C10_PresentIffSession' /\ C10_SessionSteps]_vars

\* new is old with e inserted at index k, the elements of old in their order
InsertedAt(old, new, k, e) ==
    /\ Len(new) = Len(old) + 1
    /\ k \in 0..Len(old)
    /\ new[k + 1] = e
    /\ \A j \in 1..Len(old) : new[IF j <= k THEN j ELSE j + 1] = old[j]

\* new is old without its element of index k, the others in their order
RemovedAt(old, new, k) ==
    /\ Len(new) = Len(old) - 1
    /\ k \in 0..(Len(old) - 1)
    /\ \A j \in 1..Len(new) : new[j] = old[IF j <= k THEN j ELSE j + 1]

\* C3: for a table with N visual columns and a column index i,
\* deleteColumn(table, i) changes nothing when N = 1 and otherwise leaves
\* exactly N - 1 visual columns, the cell formerly at i removed from every
\* row and the remaining cells of each row in their order.
C3_DeleteColumn ==
    [][\A i \in 0..(getColumnCount(rows) - 1) :
         DeleteColumn(i) =>
           IF getColumnCount(rows) = 1
           THEN TableUnchanged
           ELSE /\ ~last'.threw
                /\ getColumnCount(rows') = getColumnCount(rows) - 1
                /\ Len(rows') = Len(rows)
                /\ \A r \in 1..Len(rows) :
                     RemovedAt(rows[r].cells, rows'[r].cells, i)]_vars

\* C4: for a table with M rows and a row index i, deleteRow(table, i)
\* changes nothing when M = 1 and otherwise leaves exactly M - 1 rows: the
\* row formerly at i is removed and the other rows keep their order.
C4_DeleteRow ==
    [][\A i \in 0..(Len(rows) - 1) :
         DeleteRow(i) =>
           IF Len(rows) = 1
           THEN TableUnchanged
           ELSE /\ RemovedAt(rows, rows', i)
                /\ ~last'.threw]_vars

\* A table of two rows lost one to deleteRow
C4_Witness ==
    /\ last.op = "deleteRow"
    /\ last.args[1] \in 0..1
    /\ ~last.threw
    /\ nSteps = 1
    /\ Len(rows) = 1

\* C5: during a column or corner drag session, after every pointer-move the
\* colgroup width of the target column equals max(minColumnWidth, width of
\* that column in the session's snapshot + (pointer X - starting pointer X)).
C5_ColumnDragWidth ==
    [][\A delta \in Deltas :
         (DocumentMouseMove(delta) /\ Dragging /\ drag.edge \in {"col", "corner"}) =>
           /\ hasColgroup'
           /\ drag.colIndex < Len(cols')
           /\ drag.colIndex < Len(drag.colWidths)
           /\ cols'[drag.colIndex + 1] =
                Max(Px(minColumnWidth),
                    drag.colWidths[drag.colIndex + 1] + Px(delta[1]))]_vars

\* C6: during a row or corner drag session, after every pointer-move the
\* inline height of the target row equals max(minRowHeight, height of that
\* row in the session's snapshot + (pointer Y - starting pointer Y)).
\* Stated for the sessions during which the table kept its rows.
C6_RowDragHeight ==
    [][\A delta \in Deltas :
         (/\ DocumentMouseMove(delta)
          /\ Dragging
          /\ drag.edge \in {"row", "corner"}
          /\ Len(rows) = Len(drag.rowHeights)) =>
           /\ drag.rowIndex < Len(rows')
           /\ rows'[drag.rowIndex + 1].height =
                Max(Px(minRowHeight),
                    drag.rowHeights[drag.rowIndex + 1] + Px(delta[2]))]_vars

\* What insertColumn does to the colgroup when the new col goes to index k
ColgroupGained(k) ==
    IF hasColgroup
    THEN hasColgroup' /\ InsertedAt(cols, cols', k, Px(minColumnWidth))
    ELSE ~hasColgroup' /\ cols' = cols

\* C7 as stated: insertColumn(table, i, 'after') adds one cell to every row,
\* the new empty cell immediately after the cell previously at index i (at
\* index i + 1), the existing cells in their order; a colgroup gains one
\* entry at index i + 1.
C7_InsertAfterAtNextIndex ==
    [][\A i \in 0..(getColumnCount(rows) - 1) :
         InsertColumn(i, "after") =>
           /\ Len(rows') = Len(rows)
           /\ \A r \in 1..Len(rows) :
                InsertedAt(rows[r].cells, rows'[r].cells, i + 1, NewCell)
           /\ ColgroupGained(i + 1)]_vars

\* C7 amended: the new empty cell is at index min(i + 1, the row's former
\* cell count): immediately after the cell previously at i where the row
\* has one, at the end of the row otherwise; a colgroup gains one entry at
\* index min(i + 1, its former entry count).
C7_InsertAfter ==
    [][\A i \in 0..(getColumnCount(rows) - 1) :
         InsertColumn(i, "after") =>
           /\ Len(rows') = Len(rows)
           /\ \A r \in 1..Len(rows) :
                /\ InsertedAt(rows[r].cells, rows'[r].cells,
                              Min(i + 1, Len(rows[r].cells)), NewCell)
                /\ rows'[r].height = rows[r].height
           /\ ColgroupGained(Min(i + 1, Len(cols)))]_vars

\* insertColumn(table, 1, 'after') on a table with a colgroup and a row of
\* one cell: that row's new cell is its last, at index 1
C7_Witness ==
    /\ last = Ran("insertColumn", <<1, "after">>, FALSE)
    /\ hasColgroup
    /\ \E r \in 1..Len(rows) :
         Len(rows[r].cells) = 2 /\ rows[r].cells[2] = NewCell
    /\ \E r \in 1..Len(rows) :
         Len(rows[r].cells) > 3 /\ rows[r].cells[3] = NewCell

\* C8 as stated: for 0 <= i < column count, insertColumn(table, i, 'before')
\* places one new empty cell at index i of every row, the cells previously
\* at indices >= i one position to the right, every cell with its content.
C8_InsertBeforeAtIndex ==
    [][\A i \in 0..(getColumnCount(rows) - 1) :
         InsertColumn(i, "before") =>
           /\ Len(rows') = Len(rows)
           /\ \A r \in 1..Len(rows) :
                InsertedAt(rows[r].cells, rows'[r].cells, i, NewCell)]_vars

\* C8 amended: the new empty cell is at index min(i, the row's former cell
\* count): before the cell previously at i where the row has one, at the
\* end of the row otherwise.
C8_InsertBefore ==
    [][\A i \in 0..(getColumnCount(rows) - 1) :
         InsertColumn(i, "before") =>
           /\ Len(rows') = Len(rows)
           /\ \A r \in 1..Len(rows) :
                /\ InsertedAt(rows[r].cells, rows'[r].cells,
                              Min(i, Len(rows[r].cells)), NewCell)
                /\ rows'[r].height = rows[r].height]_vars

\* insertColumn(table, 2, 'before') on a table with a row of one cell: that
\* row's new cell is its last, at index 1, and another row has it at index 2
C8_Witness ==
    /\ last = Ran("insertColumn", <<2, "before">>, FALSE)
    /\ \E r \in 1..Len(rows) :
         Len(rows[r].cells) = 2 /\ rows[r].cells[2] = NewCell
    /\ \E r \in 1..Len(rows) :
         Len(rows[r].cells) > 3 /\ rows[r].cells[3] = NewCell

\* C9: for a table with M rows and 0 <= i < M, insertRow(table, i, position)
\* leaves M + 1 rows: a new row of one empty cell per visual column, just
\* before row i for 'before' and just after it for 'after', the existing
\* rows in their order.
C9_InsertRow ==
    [][\A i \in 0..(Len(rows) - 1) : \A position \in Positions :
         InsertRow(i, position) =>
           LET k == IF position = "after" THEN i + 1 ELSE i
           IN  /\ Len(rows') = Len(rows) + 1
               /\ Len(rows'[k + 1].cells) = getColumnCount(rows)
               /\ \A c \in 1..Len(rows'[k + 1].cells) :
                    rows'[k + 1].cells[c] = NewCell
               /\ InsertedAt(rows, rows', k, rows'[k + 1])]_vars

\* A row of three empty cells was inserted after row 0 of a table whose
\* first row has two cells, one of them spanning two columns
C9_Witness ==
    /\ last = Ran("insertRow", <<0, "after">>, FALSE)
    /\ Len(rows) = 3
    /\ Len(rows[1].cells) = 2
    /\ rows[2].cells = <<NewCell, NewCell, NewCell>>

---------------------------------------------------------------------------
(* Properties of the context menu, the hover buttons and the host *)

\* destroy() has run
Destroyed == ~rootListeners

\* C11: after destroy(), in every interleaving with the pending scheduled
\* callbacks, no document-level listener of the instance remains or is
\* registered later, no drag overlay, context menu or hover button remains
\* in the document, and no timer of the instance is pending.
C11_NothingLeftAfterDestroy ==
    Destroyed =>
        /\ docListeners = {}
        /\ dismissListeners = {}
        /\ ~scrollListener
        /\ ~overlay
        /\ contextMenu = NoMenu
        /\ ~edgeButtons
        /\ ~hideEdgeBtnTimer
        /\ dismissTimers = 0

C13_MenuClosedByPointerDownAndEscape ==
    [][(/\ contextMenu # NoMenu
        /\ dismissListeners = {"mousedown", "keydown"}
        /\ last'.op \in {"mousedown", "button", "menuitem", "keydown"}
        /\ last' # last) => contextMenu' = NoMenu]_vars

\* C14: in a context menu Delete Column is disabled exactly when the table
\* had one visual column or fewer when the menu was opened, Delete Row
\* exactly when it had one row; a pointer-down on a disabled item performs
\* no structural change on the table.
C14_DisabledDeleteItems ==
    [][/\ \A r \in 0..(Len(rows) - 1) : \A c \in 0..(Len(rows[r + 1].cells) - 1) :
            ContextMenu(r, c) =>
              /\ contextMenu'.items[3].label = "Delete Column"
              /\ contextMenu'.items[3].disabled <=> getColumnCount(rows) <= 1
              /\ contextMenu'.items[6].label = "Delete Row"
              /\ contextMenu'.items[6].disabled <=> Len(rows) <= 1
       /\ \A k \in 1..7 :
            (MenuItemMouseDown(k) /\ contextMenu.items[k].disabled) =>
              TableUnchanged /\ tablePresent' = tablePresent]_vars

\* A pointer-down on the disabled Delete Row of the menu of a table of one
\* row and several columns, whose Delete Column is enabled
C14_Witness ==
    /\ last = Ran("menuitem", <<6, "disabled">>, FALSE)
    /\ Len(rows) = 1
    /\ getColumnCount(rows) = 3

\* C15: a secondary-click whose target is in no table cell opens no context
\* menu and changes no state of the instance.
C15_SecondaryClickOutsideCell ==
    [][ContextMenuOutsideCell =>
         /\ contextMenu' = contextMenu
         /\ menuElements' = menuElements
         /\ UNCHANGED <<rows, hasColgroup, cols, tableWidth, tableLayoutFixed, drag,
                        overlay, docListeners, rootListeners, pendingRecords,
                        contextCell, dismissListeners, dismissTimers, edgeButtons,
                        hoveredTable, hideEdgeBtnTimer, hideTimers, scrollListener,
                        tablePresent>>]_vars

\* A secondary-click outside the cells while a menu is open, and with none
C15_Witness ==
    /\ last = Ran("contextmenu", <<>>, FALSE)
    /\ contextMenu # NoMenu
    /\ dismissListeners # {}

StructuralOps == {"insertColumn", "deleteColumn", "insertRow", "deleteRow"}

\* C16 as stated: a table gets its colgroup only in a step that resizes a
\* column (a pointer-down or pointer-move of a session on a column or corner
\* edge) or edits the structure, and has one after every step that inserted
\* or deleted a column.  Stated for the index of an existing column.
C16_OverlayOnceResizedOrEdited ==
    [][/\ (~hasColgroup /\ hasColgroup') =>
            \/ last'.op \in StructuralOps
            \/ last'.op \in {"mousedown", "mousemove"} /\ drag'.edge \in {"col", "corner"}
       /\ (/\ last'.op \in {"insertColumn", "deleteColumn"}
           /\ last'.args[1] \in 0..(getColumnCount(rows) - 1)
           /\ rows' # rows) => hasColgroup']_vars

\* C16 amended: a table gets its colgroup exactly at the pointer-down that
\* starts a drag session, on a column, row or corner edge and whether or not
\* the pointer moves afterwards; it keeps it from then on; insertColumn,
\* deleteColumn, insertRow and deleteRow neither create nor remove it.
C16_OverlayFromSessionStart ==
    [][/\ (~hasColgroup /\ hasColgroup') =>
            last'.op = "mousedown" /\ ~Dragging /\ drag' # NoDrag
       /\ (last'.op = "mousedown" /\ ~Dragging /\ drag' # NoDrag) =>
            hasColgroup' /\ Len(cols') = getColumnCount(rows)
       /\ hasColgroup => hasColgroup'
       /\ last'.op \in StructuralOps => hasColgroup' = hasColgroup]_vars

\* A pointer-down on a row edge has given its colgroup to a table into which
\* a column had been inserted before
C16_Witness ==
    /\ last.op = "mousedown"
    /\ drag # NoDrag
    /\ drag.edge = "row"
    /\ hasColgroup
    /\ Len(cols) = 4

C18_StructuralEditsDrained ==
    (host = "working" /\ ~last.threw) => "childList" \notin pendingRecords

\* Outcome of the public mutation method op called with args on the table
ApiOutcome(op, args) ==
    CASE op = "insertColumn" -> insertColumn(Tbl, args[1], args[2])
      [] op = "deleteColumn" -> deleteColumn(Tbl, args[1])
      [] op = "insertRow" -> insertRow(Tbl, args[1], args[2])
      [] OTHER -> deleteRow(Tbl, args[1])

\* Whether index is the index of a column (for the column methods) or of a
\* row (for the row methods) of the table
InTable(op, index) ==
    IF op \in {"insertColumn", "deleteColumn"}
    THEN index \in 0..(getColumnCount(rows) - 1)
    ELSE index \in 0..(Len(rows) - 1)

\* C19: with a host whose observer is absent or whose takeRecords throws,
\* insertColumn, deleteColumn, insertRow, deleteRow and deleteTable raise
\* nothing of the host's (they raise exactly when the DOM calls of the method
\* raise, which on a table without spanning cells they never do for an index
\* inside the table), leave the table as the method alone determines it, and
\* the records stay in the host's queue: no later step drains them.
C19_HostFailureSwallowed ==
    [][host # "working" =>
         /\ (last'.op \in StructuralOps /\ nSteps' = nSteps + 1) =>
              LET out == ApiOutcome(last'.op, last'.args)
              IN  /\ last'.threw = out.threw
                  /\ InTable(last'.op, last'.args[1]) => ~last'.threw
                  /\ [rows |-> rows', hasColgroup |-> hasColgroup', cols |-> cols',
                      tableWidth |-> tableWidth',
                      tableLayoutFixed |-> tableLayoutFixed'] = out.t
                  /\ pendingRecords' = pendingRecords \cup RecordsOf(Tbl, out.t)
         /\ (last'.op = "deleteTable" /\ nSteps' = nSteps + 1) =>
              /\ ~last'.threw
              /\ ~tablePresent'
              /\ TableUnchanged
              /\ "childList" \in pendingRecords'
         /\ pendingRecords \subseteq pendingRecords']_vars

\* deleteColumn has returned with a host whose takeRecords throws: a column
\* is gone and the records of the removed cells are in the queue
C19_Witness ==
    /\ host = "throwing"
    /\ last = Ran("deleteColumn", <<0>>, FALSE)
    /\ getColumnCount(rows) = 2
    /\ "childList" \in pendingRecords

\* C20: for every index, negative ones and ones at or past the end included,
\* insertColumn, deleteColumn, insertRow and deleteRow return without
\* raising, and a delete at an index that is no column or row of the table
\* leaves the table and its colgroup as they were.
C20_NoObservableFailure ==
    [][(last'.op \in StructuralOps /\ nSteps' = nSteps + 1) =>
         /\ ~last'.threw
         /\ (/\ last'.op \in {"deleteColumn", "deleteRow"}
             /\ ~InTable(last'.op, last'.args[1])) => TableUnchanged]_vars

\* C21: no pointer-move of a drag session takes the width of the table
\* from minTableWidth or more to less than minTableWidth, nor its height
\* from minTableHeight or more to less than minTableHeight.  Stated for
\* tables without spanning cells whose rows have the same number of cells.
C21_TableSizeFloors ==
    [][(/\ Dragging
        /\ last'.op = "mousemove"
        /\ \A r \in 1..Len(rows) : Len(rows[r].cells) = Len(rows[1].cells)
        /\ \A r \in 1..Len(rows) : \A c \in 1..Len(rows[r].cells) :
              rows[r].cells[c].colSpan = 1 /\ rows[r].cells[c].rowSpan = 1) =>
         /\ tableOffsetWidth(rows, Cg(Tbl), tableWidth) >= Px(minTableWidth) =>
              tableOffsetWidth(rows', IF hasColgroup' THEN cols' ELSE <<>>, tableWidth')
                >= Px(minTableWidth)
         /\ tableOffsetHeight(rows) >= Px(minTableHeight) =>
              tableOffsetHeight(rows') >= Px(minTableHeight)]_vars

\* C22: once the table of the active drag session has been removed from the
\* document, the session is over: no drag state, no overlay, no mousemove or
\* mouseup listener on the document.  Stated for an instance that has not
\* been destroyed.
C22_RemovalAbortsSession ==
    (rootListeners /\ ~tablePresent) =>
        /\ ~Dragging
        /\ ~overlay
        /\ docListeners \cap {"mousemove", "mouseup"} = {}

\* C23: in every step at most one context menu element is in the body, and
\* it is the one this.contextMenu refers to; a session is never replaced by
\* another session while it is active; a secondary-click on a cell while a
\* menu is open leaves exactly one menu element, the new one, and none of the
\* dismiss listeners of the previous one.
C23_OneSessionOneMenu ==
    [][/\ menuElements' \in {0, 1}
       /\ menuElements' = 1 <=> contextMenu' # NoMenu
       /\ Dragging => drag' \in {drag, NoDrag}
       /\ Dragging' /\ rootListeners' => overlay'
       /\ \A r \in 0..(Len(rows) - 1) : \A c \in 0..(Len(rows[r + 1].cells) - 1) :
            (contextMenu # NoMenu /\ ContextMenu(r, c)) =>
              /\ menuElements' = 1
              /\ contextMenu' = showContextMenu(rows, r, c)
              /\ dismissListeners' = {}]_vars

\* A menu was opened on cell (1, 2) while the menu of cell (0, 0) was open
\* with its dismiss listeners registered
C23_Witness ==
    /\ last = Ran("contextmenu", <<1, 2>>, FALSE)
    /\ nSteps = 2
    /\ contextMenu # NoMenu
    /\ contextMenu.rowIndex = 1
    /\ contextCell = NoCell
    /\ dismissTimers = 1
    /\ dismissListeners = {}

\* C24: insertNewTable, called by the program or by the toolbar handler,
\* inserts nothing, drains nothing and raises nothing when the host reports
\* no selection; with a selection and counts that are not negative it hands
\* the host, at the index of the selection, a table of exactly `rows` rows
\* of `cols` empty cells each (3 and 3 for missing arguments), and then
\* drains the records of a working host.
C24_InsertNewTable ==
    [][(last'.op \in {"insertNewTable", "toolbar"} /\ nSteps' = nSteps + 1) =>
         LET range == last'.args[1]
             args == last'.args[2]
             nRows == IF Len(args) >= 1 THEN args[1] ELSE 3
             nCols == IF Len(args) >= 2 THEN args[2] ELSE 3
         IN  /\ range = <<>> =>
                  /\ TableUnchanged
                  /\ ~tablePresent'
                  /\ pendingRecords' = pendingRecords
                  /\ ~last'.threw
             /\ (range # <<>> /\ nRows >= 0 /\ nCols >= 0) =>
                  /\ ~last'.threw
                  /\ tablePresent'
                  /\ insertNewTable(range, args).index = range[1]
                  /\ Len(rows') = nRows
                  /\ \A r \in 1..Len(rows') :
                       /\ Len(rows'[r].cells) = nCols
                       /\ \A c \in 1..Len(rows'[r].cells) : rows'[r].cells[c] = NewCell
                  /\ ~hasColgroup'
                  /\ host = "working" => pendingRecords' = {}
                  /\ host # "working" => "childList" \in pendingRecords'
             /\ last'.op = "toolbar" => args = <<>>]_vars

\* insertNewTable(2, 3) has returned with the cursor at index 4 and a working
\* host
C24_Witness ==
    /\ last = Ran("insertNewTable", << <<4>>, <<2, 3>> >>, FALSE)
    /\ host = "working"
    /\ tablePresent
    /\ Len(rows) = 2
    /\ Len(rows[1].cells) = 3
    /\ pendingRecords = {}

\* C25: for a pointer over a cell, offR from its right edge and offB from
\* its bottom edge, the detected edge is: none when both distances exceed
\* handleSize; "row" when only offB is within handleSize; "col" when only
\* offR is; when both are, "corner" if the cell ends in the last visual
\* column and in the last row of the table, "col" otherwise.  The hover
\* handler marks the cell with that edge and a pointer-down starts a session
\* on that edge, or none.
C25_EdgeClassification ==
    [][(/\ last'.op \in {"hover", "mousedown"}
        /\ last' # last
        /\ ~Dragging) =>
         LET r == last'.args[1]
             c == last'.args[2]
             nearRight == last'.args[3] <= 5
             nearBottom == last'.args[4] <= 5
             td == rows[r + 1].cells[c + 1]
             endsLastCol == SpanSum(rows[r + 1].cells, c) + td.colSpan
                              = SpanSum(rows[1].cells, Len(rows[1].cells))
             endsLastRow == r + td.rowSpan = Len(rows)
             expected == IF ~nearRight /\ ~nearBottom THEN "none"
                         ELSE IF nearRight /\ ~nearBottom THEN "col"
                         ELSE IF nearBottom /\ ~nearRight THEN "row"
                         ELSE IF endsLastCol /\ endsLastRow THEN "corner"
                         ELSE "col"
         IN  IF last'.op = "hover"
             THEN last'.args[5] = expected
             ELSE drag'.edge = expected]_vars

\* The pointer is over a cell that ends in the last column but not in the
\* last row, exactly handleSize from both of its edges: column edge
C25_Witness ==
    /\ last = Ran("hover", <<0, 2, 5, 5, "col">>, FALSE)
    /\ Len(rows) = 2
    /\ rows[1].cells[3].rowSpan = 1

\* C26: the session a pointer-down starts carries span-adjusted indices: for
\* a "col" or "corner" edge the column index is the last visual column the
\* cell covers, for a "row" or "corner" edge the row index is the last row
\* the cell covers.
C26_SpanAdjustedIndices ==
    [][(/\ last'.op = "mousedown"
        /\ last' # last
        /\ ~Dragging
        /\ Dragging') =>
         LET r == last'.args[1]
             c == last'.args[2]
             td == rows[r + 1].cells[c + 1]
         IN  /\ drag'.edge \in {"col", "corner"} =>
                  drag'.colIndex = SpanSum(rows[r + 1].cells, c) + td.colSpan - 1
             /\ drag'.edge \in {"row", "corner"} =>
                  drag'.rowIndex = r + td.rowSpan - 1]_vars

\* C27: the pointer-down that starts a session leaves every col at its
\* snapshot width and every row at its snapshot height, and a pointer-move of
\* the session resizes the target only.  In a column drag every col other
\* than the target keeps its width and the rows are left as they are; in a
\* row drag the colgroup is left as it is and every row other than the target
\* has its snapshot height; a corner drag does both.
C27_OnlyTargetResized ==
    [][/\ (last'.op = "mousedown" /\ ~Dragging /\ Dragging') =>
            /\ cols' = drag'.colWidths
            /\ \A i \in 1..Len(rows') : rows'[i].height = drag'.rowHeights[i]
       /\ (last'.op = "mousemove" /\ Dragging) =>
            /\ drag.edge \in {"col", "corner"} =>
                 \A i \in 1..Len(cols) :
                    i # drag.colIndex + 1 => i <= Len(cols') /\ cols'[i] = cols[i]
            /\ drag.edge = "col" => rows' = rows
            /\ drag.edge \in {"row", "corner"} =>
                 /\ Len(rows') = Len(rows)
                 /\ \A i \in 1..Len(rows) :
                      /\ rows'[i].cells = rows[i].cells
                      /\ i # drag.rowIndex + 1 =>
                           rows'[i].height =
                             IF i <= Len(drag.rowHeights) THEN drag.rowHeights[i]
                             ELSE rows[i].height
            /\ drag.edge = "row" =>
                 cols' = cols /\ hasColgroup' = hasColgroup /\ tableWidth' = tableWidth]_vars

\* A corner drag of the 2 x 3 table has moved by (30, 20): the last col and
\* the last row have grown, the other cols and the other row are at their
\* snapshot sizes
C27_Witness ==
    /\ last = Ran("mousemove", <<30, 20>>, FALSE)
    /\ Dragging
    /\ drag.edge = "corner"
    /\ Len(cols) = 3
    /\ Len(rows) = 2
    /\ cols[3] = drag.colWidths[3] + Px(30)
    /\ cols[1] = drag.colWidths[1]
    /\ cols[2] = drag.colWidths[2]
    /\ rows[2].height = drag.rowHeights[2] + Px(20)
    /\ rows[1].height = drag.rowHeights[1]

\* C28: after a pointer-move of a session that brings the pointer back to
\* the position of the pointer-down, the colgroup holds exactly the snapshot
\* widths and every row has its snapshot height, whatever moves came before.
\* Stated for the sessions during which the table kept its rows and its
\* cols, every col other than the target at its snapshot width.
C28_NoDrift ==
    [][(/\ last'.op = "mousemove"
        /\ last'.args = <<0, 0>>
        /\ Dragging
        /\ Len(rows) = Len(drag.rowHeights)
        /\ Len(cols) = Len(drag.colWidths)
        /\ \A i \in 1..Len(cols) :
             i # drag.colIndex + 1 => cols[i] = drag.colWidths[i]) =>
         /\ cols' = drag.colWidths
         /\ \A i \in 1..Len(rows') : rows'[i].height = drag.rowHeights[i]]_vars

\* C29: when the table has a colgroup, insertColumn gives the new col the
\* width minColumnWidth, leaves the widths of the other cols unchanged, and
\* increases the table's width by exactly minColumnWidth, the width being
\* read either as the table's inline width or as its rendered width.
\* Stated for the index of an existing column, outside a drag session.
C29_ColgroupInsert ==
    [][\A i \in 0..(getColumnCount(rows) - 1), position \in Positions :
         (InsertColumn(i, position) /\ hasColgroup /\ ~Dragging) =>
           /\ \E k \in 0..Len(cols) :
                InsertedAt(cols, cols', k, Px(minColumnWidth))
           /\ \/ tableWidth' = tableWidth + Px(minColumnWidth)
              \/ tableOffsetWidth(rows', cols', tableWidth') =
                   tableOffsetWidth(rows, cols, tableWidth)
                   + Px(minColumnWidth)]_vars

\* The sum of the widths s, d counted for a width that is unset or not a
\* number
RECURSIVE SumOr(_, _)
SumOr(s, d) ==
    IF s = <<>> THEN 0
    ELSE (IF Head(s) = 0 \/ Head(s) = NaN THEN d ELSE Head(s))
         + SumOr(Tail(s), d)

\* C30: when the table has a colgroup and more than one column,
\* deleteColumn(table, i) removes the col at index i, leaves the widths of
\* the other cols unchanged, and sets the table's width to the sum of the
\* remaining cols' widths, minColumnWidth counted for a col whose width
\* cannot be parsed.
\* Stated for the index of an existing column, outside a drag session.
C30_ColgroupDelete ==
    [][\A i \in 0..(getColumnCount(rows) - 1) :
         (/\ DeleteColumn(i)
          /\ hasColgroup
          /\ getColumnCount(rows) > 1
          /\ ~Dragging) =>
           /\ RemovedAt(cols, cols', i)
           /\ tableWidth' = SumOr(cols', Px(minColumnWidth))]_vars

\* C31: after any sequence of drag sessions, column inserts and column
\* deletes, whenever the table has a colgroup its inline width equals the sum
\* of the widths of the cols.
\* Stated for the states a step outside a drag session leaves, the cols all
\* with a width, a column method called with the index of an existing column.
C31_WidthIsColgroupSum ==
    [][(/\ ~Dragging
        /\ ~Dragging'
        /\ ~last'.threw
        /\ last'.op \in {"insertColumn", "deleteColumn"} =>
             last'.args[1] \in 0..(getColumnCount(rows) - 1)
        /\ hasColgroup'
        /\ \A i \in 1..Len(cols') : cols'[i] > 0) =>
         tableWidth' = SumSeq(cols')]_vars

\* C32: the actions of a context menu are bound to the cell that was
\* right-clicked, the cell of index c in row r: Delete Column removes that
\* cell, Insert Column Left / Right place the new cell immediately before /
\* after it in its row, Delete Row removes row r and Insert Row Above / Below
\* place the new row immediately before / after row r, also where a cell
\* before the clicked one spans several columns.
C32_MenuBoundToCell ==
    [][\A k \in 1..6 :
         (/\ MenuItemMouseDown(k)
          /\ contextCell # NoCell
          /\ ~contextMenu.items[k].disabled) =>
           LET r == contextCell[1]
               c == contextCell[2]
               cells == rows[r + 1].cells
           IN  CASE k = 1 ->
                      InsertedAt(cells, rows'[r + 1].cells, c, NewCell)
                 [] k = 2 ->
                      InsertedAt(cells, rows'[r + 1].cells, c + 1, NewCell)
                 [] k = 3 ->
                      RemovedAt(cells, rows'[r + 1].cells, c)
                 [] k = 4 ->
                      /\ Len(rows') = Len(rows) + 1
                      /\ rows'[r + 2] = rows[r + 1]
                      /\ \A j \in 1..r : rows'[j] = rows[j]
                 [] k = 5 ->
                      /\ Len(rows') = Len(rows) + 1
                      /\ \A j \in 1..(r + 1) : rows'[j] = rows[j]
                      /\ \A j \in (r + 2)..Len(rows) : rows'[j + 1] = rows[j]
                 [] OTHER ->
                      RemovedAt(rows, rows', r)]_vars

\* C33: at most one hide callback of the hover buttons is pending, the one
\* the instance holds the handle of; scheduling a hide while one is pending
\* leaves one; a step that removes the hover buttons, destroy included,
\* leaves none, as does a press of a button, which removes the buttons and
\* shows new ones: no callback scheduled for removed buttons is left to fire.
C33_OneHideTimer ==
    [][/\ hideTimers' <= 1
       /\ hideEdgeBtnTimer' <=> hideTimers' = 1
       /\ (last'.op \in {"mouseout", "mouseleave"} /\ hideEdgeBtnTimer) =>
            hideTimers' = 1
       /\ ((edgeButtons /\ ~edgeButtons') \/ last'.op \in {"button", "destroy"}) =>
            hideTimers' = 0]_vars

\* The pointer has left the add-row button for a place outside while a hide
\* was pending: one hide is pending
C33_Witness ==
    /\ last = Ran("mouseleave", <<"addRow", "outside", "pending">>, FALSE)
    /\ edgeButtons
    /\ hideEdgeBtnTimer
    /\ hideTimers = 1

\* C34: in every reachable state the document scroll listener is registered
\* exactly when the hover buttons are present, and while they are present a
\* table is recorded as hovered and that table is still in the editor.
C34_ButtonsBoundToHoveredTable ==
    /\ scrollListener <=> edgeButtons
    /\ edgeButtons => hoveredTable /\ tablePresent

\* C35: a press of the add-column button appends one new empty cell as the
\* last cell of every row, a press of the add-row button appends one new row
\* as the last row, and after either no hide is pending and the buttons are
\* present for the same table; a press of the delete-table button removes
\* the table and leaves no hover button and no pending hide.
C35_ButtonPress ==
    [][/\ ButtonMouseDown("addCol") =>
            /\ Len(rows') = Len(rows)
            /\ \A r \in 1..Len(rows) :
                 rows'[r].cells = Append(rows[r].cells, NewCell)
            /\ edgeButtons' /\ hoveredTable' /\ tablePresent'
            /\ ~hideEdgeBtnTimer' /\ hideTimers' = 0
       /\ ButtonMouseDown("addRow") =>
            /\ Len(rows') = Len(rows) + 1
            /\ \A r \in 1..Len(rows) : rows'[r] = rows[r]
            /\ \A c \in 1..Len(rows'[Len(rows')].cells) :
                 rows'[Len(rows')].cells[c] = NewCell
            /\ edgeButtons' /\ hoveredTable' /\ tablePresent'
            /\ ~hideEdgeBtnTimer' /\ hideTimers' = 0
       /\ ButtonMouseDown("deleteTable") =>
            /\ ~tablePresent'
            /\ ~edgeButtons'
            /\ ~hideEdgeBtnTimer' /\ hideTimers' = 0]_vars

\* C36: starting from a table without spanning cells whose rows have the
\* same number of cells, every sequence of insertColumn, deleteColumn,
\* insertRow and deleteRow calls with in-range indices leaves a table without
\* spanning cells in which every row has as many cells as the table has
\* visual columns.
C36_StaysRectangular ==
    /\ ~last.threw
    /\ \A r \in 1..Len(rows) :
         /\ Len(rows[r].cells) = getColumnCount(rows)
         /\ \A c \in 1..Len(rows[r].cells) :
              rows[r].cells[c].colSpan = 1 /\ rows[r].cells[c].rowSpan = 1

\* insertColumn and then insertRow on the table of 2 rows of 3 cells: 3 rows
\* of 4 cells
C36_Witness ==
    /\ last.op = "insertRow"
    /\ nSteps = 2
    /\ Len(rows) = 3
    /\ getColumnCount(rows) = 4
    /\ \A r \in 1..3 : Len(rows[r].cells) = 4

\* The colgroup and the table's inline width and layout are as they were
ColgroupUnchanged ==
    UNCHANGED <<hasColgroup, cols, tableWidth, tableLayoutFixed>>

\* C37: insertRow and deleteRow leave the colgroup (its presence, its cols
\* and their widths) and the table's inline width unchanged, and leave every
\* row that was there and remains as it was, its inline height included;
\* deleteRow on a table of one row and deleteColumn on a table of one column
\* change nothing at all and take no record from the host.
C37_RowMethodsFrame ==
    [][/\ \A i \in RowIndices, p \in Positions :
            InsertRow(i, p) =>
              /\ ColgroupUnchanged
              /\ \/ last'.threw /\ rows' = rows
                 \/ \E k \in 0..Len(rows) :
                      InsertedAt(rows, rows', k, rows'[k + 1])
       /\ \A i \in RowIndices :
            DeleteRow(i) =>
              /\ ColgroupUnchanged
              /\ IF Len(rows) <= 1
                 THEN rows' = rows /\ pendingRecords' = pendingRecords
                      /\ ~last'.threw
                 ELSE \/ last'.threw /\ rows' = rows
                      \/ \E k \in 0..(Len(rows) - 1) : RemovedAt(rows, rows', k)
       /\ \A i \in ColIndices :
            (DeleteColumn(i) /\ getColumnCount(rows) <= 1) =>
              /\ ColgroupUnchanged
              /\ rows' = rows
              /\ pendingRecords' = pendingRecords
              /\ ~last'.threw]_vars

\* deleteRow(table, 0) on a table of one row that has a colgroup, the host
\* holding records: nothing was taken
C37_Witness ==
    /\ last = Ran("deleteRow", <<0>>, FALSE)
    /\ Len(rows) = 1
    /\ hasColgroup
    /\ pendingRecords # {}
    /\ host = "working"

\* C38: after an editor pointer-move handled while no session is active, no
\* cell carries a resize class when no edge is detected, and otherwise the
\* cell under the pointer is the only cell that carries one, the class of the
\* detected edge and no other; an editor pointer-move while a session is
\* active changes no resize class.
C38_CursorClasses ==
    [][(last'.op = "hover" /\ last' # last) =>
         LET r == last'.args[1]
             c == last'.args[2]
             edge == last'.args[5]
         IN  IF Dragging
             THEN resizeCells' = resizeCells
             ELSE IF edge = "none"
             THEN resizeCells' = {}
             ELSE resizeCells' = {<<r, c, edge>>}]_vars

\* The first cell got the column class before a pointer-down on its right
\* edge; an editor pointer-move over another cell during the session has left
\* the class where it was
C38_Witness ==
    /\ last.op = "hover"
    /\ last.args[1] = 1
    /\ Dragging
    /\ drag.edge = "col"
    /\ resizeCells = {<<0, 0, "col">>}

============================================================================
